---- MODULE Spec2Model ----
(***************************************************************************)
(* A state-machine model of koishi-plugin-my-pig-group-friends: the        *)
(* destination resolver, the travel orchestrator, the message middlewares, *)
(* the command handlers and the pure aggregation / map-patching helpers.   *)
(*                                                                         *)
(* Asynchronous functions are modelled as tasks whose program counter      *)
(* stops at every await; one action is one run of a task from one await to *)
(* the next, so tasks interleave exactly where the event loop lets them.   *)
(*                                                                         *)
(* Source files as they are stored: index.ts is src/src/types.ts,          *)
(* travel.ts and sunrise.ts are src/unnamed/part_004, location.ts and      *)
(* leaderboard.ts are src/src/services/location.ts. Line numbers are those *)
(* of the stored files.                                                    *)
(***************************************************************************)
EXTENDS Integers, Sequences, FiniteSets, TLC

(***************************************************************************)
(* Bounds of the model.                                                    *)
(***************************************************************************)
NumTasks == 2        \* concurrently running resolver calls
MaxTime == 2         \* the clock runs 0..MaxTime
NumTravels == 1      \* concurrently running travel sequences
MaxRows == 1         \* no travel sequence starts once the log holds MaxRows rows
StackLimit == 2      \* nested calls the runtime allows before RangeError
NumStatic == 2       \* entries of the static catalog

VARIABLES
    config,            \* the plugin configuration and the services present
    now,               \* the wall clock (Date.now())
    llmCooldownUntil,  \* location.ts: module-level cooldown timestamp
    task,              \* per task: program counter and locals
    travelLog,         \* table pig_travel_log, in insertion order
    lastFail,          \* history: time of the latest generation failure, -1 if none
    lastFailLive,      \* history: the same, forgotten when a generation succeeds
    pigUserState,      \* table pig_user_state
    travelLocks,       \* index.ts: Map user key -> time of the last automatic trigger
    dailyUserState,    \* index.ts: Map user key -> today's silent-record flags
    cachedSunriseDate, \* index.ts: the day the cached sunrise belongs to
    started,           \* history: the automatic travel sequences started so far
    detached,          \* travel sequences running detached from their middleware
    pigGuildConfig,    \* table pig_guild_config
    files,             \* background image files on disk
    fnIn,              \* the argument a pure function is applied to
    fnOut,             \* its result
    pages              \* the browser pages handed out by ctx.puppeteer.page()

rsvVars == <<config, now, llmCooldownUntil, task, travelLog, lastFail, lastFailLive>>

mwVars == <<pigUserState, travelLocks, dailyUserState, cachedSunriseDate, started, detached>>

cmdVars == <<pigGuildConfig, files>>

fnVars == <<fnIn, fnOut>>

rndVars == <<pages>>

\* what the resolver and the travel orchestrator never touch
notRsv == <<mwVars, cmdVars, fnVars, rndVars>>

vars == <<rsvVars, mwVars, cmdVars, fnVars, rndVars>>

(***************************************************************************)
(* Locations.                                                              *)
(***************************************************************************)
NoUrl == "<null>"

NoLocation ==
    [origin |-> "none", id |-> 0, country |-> "", landmark |-> "", city |-> "",
     landscapeUrl |-> ""]

StaticLocation(i) ==
    [origin |-> "catalog", id |-> i, country |-> "Iceland", landmark |-> "Blue Lagoon",
     city |-> "Grindavik", landscapeUrl |-> "https://images.example/static.jpg"]

\* constants.ts (not among the source files): the static catalog
LOCATIONS == { StaticLocation(i) : i \in 1..NumStatic }

\* Math.floor(Math.random() * LOCATIONS.length) reaches every index
getRandomStaticLocation == LOCATIONS

(***************************************************************************)
(* LLM responses and parseLocationResponse.                                *)
(*                                                                         *)
(* A response text is described by its wrapper (shape) and the JSON        *)
(* payload it carries: bare = the payload alone, fenced = inside a ```     *)
(* block, embedded = payload surrounded by prose, garbage = no payload.    *)
(* kind: object = syntactically valid object, invalid = object-like text   *)
(* with a syntax error, null = the literal null.                           *)
(* A field is "absent" (key not in the text), "" (key present, falsy) or   *)
(* a value. order says whether the "country" key precedes "landmark".      *)
(***************************************************************************)
LlmHttpUrl == "https://images.example/llm.jpg"
NonHttpUrl == "photos/llm.jpg"
NonStringUrl == "<number>"
SynthUrl == "https://images.unsplash.com/featured/?landmark,country"
PexelsUrl == "https://images.pexels.com/found.jpg?w=1080"
UnsplashUrl == "https://images.unsplash.com/found.jpg?fm=webp&q=85"

HttpUrls == {LlmHttpUrl, SynthUrl, PexelsUrl, UnsplashUrl, "https://images.example/static.jpg"}

startsWithHttp(u) == u \in HttpUrls

ObjectContents ==
    [shape : {"bare", "fenced", "embedded"}, kind : {"object", "invalid"},
     country : {"absent", "", "Peru"}, landmark : {"absent", "", "Machu Picchu"},
     city : {"absent", "Cusco"},
     url : {"absent", "", LlmHttpUrl, NonHttpUrl, NonStringUrl},
     order : {"cl", "lc"}]

OtherContents ==
    [shape : {"bare", "fenced"}, kind : {"null"}, country : {"absent"},
     landmark : {"absent"}, city : {"absent"}, url : {"absent"}, order : {"cl"}]
    \cup
    [shape : {"garbage"}, kind : {"none"}, country : {"absent"},
     landmark : {"absent"}, city : {"absent"}, url : {"absent"}, order : {"cl"}]

Contents == ObjectContents \cup OtherContents

falsy(v) == v \in {"absent", ""}

\* JSON.parse(jsonStr.trim()) succeeds: the text handed to it is the payload alone
\* (bare, or the inside of the fenced block) and the payload is valid JSON
jsonParses(content) ==
    content.shape \in {"bare", "fenced"} /\ content.kind \in {"object", "null"}

\* /\{[\s\S]*"country"[\s\S]*"landmark"[\s\S]*\}/ matches the content
looseMatch(content) ==
    /\ content.kind \in {"object", "invalid"}
    /\ content.country # "absent"
    /\ content.landmark # "absent"
    /\ content.order = "cl"

\* objectMatch[0]: the text from the first { to the last }
looseExtract(content) == [content EXCEPT !.shape = "bare"]

\* the URL repair of parseLocationResponse
fixLandscapeUrl(u) == IF startsWithHttp(u) THEN u ELSE SynthUrl

\* mutant of parseTry: the required fields are not validated
parseTry_NoValidation(content) ==
    IF ~jsonParses(content) \/ content.kind = "null" \/ content.url = NonStringUrl
    THEN [res |-> "threw", loc |-> NoLocation]
    ELSE [res |-> "ok",
          loc |-> [origin |-> "llm", id |-> 0, country |-> content.country,
                   landmark |-> content.landmark,
                   city |-> IF falsy(content.city) THEN "" ELSE content.city,
                   landscapeUrl |-> fixLandscapeUrl(content.url)]]

\* the body of the try block: "threw", "null" or a Location
parseTry(content) ==
    IF ~jsonParses(content) THEN [res |-> "threw", loc |-> NoLocation]
    ELSE IF content.kind = "null" THEN [res |-> "threw", loc |-> NoLocation]
    ELSE IF falsy(content.country) \/ falsy(content.landmark) \/ falsy(content.url)
        THEN [res |-> "null", loc |-> NoLocation]
    ELSE IF content.url = NonStringUrl THEN [res |-> "threw", loc |-> NoLocation]
    ELSE [res |-> "ok",
          loc |-> [origin |-> "llm", id |-> 0, country |-> content.country,
                   landmark |-> content.landmark,
                   city |-> IF falsy(content.city) THEN "" ELSE content.city,
                   landscapeUrl |-> fixLandscapeUrl(content.url)]]

\* parseLocationResponse at call depth d: res is "ok", "null" or "overflow" (the
\* call could not be entered: RangeError in the caller); attempts counts the
\* entered calls, exhausted says that the recursion ran into the stack limit
RECURSIVE parseLocationResponseAt(_, _)
parseLocationResponseAt(content, d) ==
    IF d > StackLimit
    THEN [res |-> "overflow", loc |-> NoLocation, attempts |-> 0, exhausted |-> TRUE]
    ELSE LET r == parseTry(content) IN
         IF r.res # "threw"
         THEN [res |-> r.res, loc |-> r.loc, attempts |-> 1, exhausted |-> FALSE]
         ELSE IF looseMatch(content)
              THEN LET n == parseLocationResponseAt(looseExtract(content), d + 1) IN
                   IF n.res = "overflow"
                   THEN [res |-> "null", loc |-> NoLocation, attempts |-> 1,
                         exhausted |-> TRUE]
                   ELSE [res |-> n.res, loc |-> n.loc, attempts |-> n.attempts + 1,
                         exhausted |-> n.exhausted]
              ELSE [res |-> "null", loc |-> NoLocation, attempts |-> 1, exhausted |-> FALSE]

parseLocationResponse(content) == parseLocationResponseAt(content, 1)

(***************************************************************************)
(* Tasks: invocations of generateLocationWithLLM (entry "resolver") and of *)
(* triggerTravelSequence (entry "travel").                                 *)
(***************************************************************************)
AigcUrl == "https://media.example/aigc.png"
StorageUrl == "https://storage.example/card.png"

\* history: what a response carried: "malformed" = no valid JSON payload,
\* "missing" = a valid object without one of country, landmark, landscapeUrl,
\* "complete" = a valid object with the three, "null" = the literal null
payloadClass(c) ==
    IF c.kind \in {"invalid", "none"} THEN "malformed"
    ELSE IF c.kind = "null" THEN "null"
    ELSE IF falsy(c.country) \/ falsy(c.landmark) \/ falsy(c.url) THEN "missing"
    ELSE "complete"

IdleTask ==
    [pc |-> "idle", entry |-> "none", location |-> NoLocation,
     path |-> "none", event |-> "none", queries |-> << >>, qi |-> 0,
     searches |-> << >>,
     isAIGC |-> FALSE, backgroundUrl |-> NoUrl, imageBuffer |-> FALSE,
     imageUrl |-> NoUrl]

FreshTask(entry) == [IdleTask EXCEPT !.entry = entry]

Tasks == DOMAIN task

\* every response the model can return, with what parseLocationResponse makes of it
ParsedResponses ==
    { [parsed |-> parseLocationResponse(c), payload |-> payloadClass(c)] : c \in Contents }

CanCall(t) == task[t].pc \in {"idle", "done", "threw"}

\* triggerTravelSequence, lines 31-45 and 76-80: what follows the location
AfterLocation(tk) ==
    IF config.outputMode = "image"
    THEN IF config.aigc
         THEN [tk EXCEPT !.pc = "aigc", !.isAIGC = TRUE]
         ELSE [tk EXCEPT !.pc = "card", !.backgroundUrl = tk.location.landscapeUrl]
    ELSE [tk EXCEPT !.pc = "create"]

\* generateLocationWithLLM returns loc to its caller
Resolved(tk, loc) ==
    IF tk.entry = "resolver"
    THEN [tk EXCEPT !.pc = "done", !.location = loc]
    ELSE AfterLocation([tk EXCEPT !.location = loc, !.event = "none"])

\* mutant of llmUnavailable: the model identifier is not looked at
llmUnavailable_IgnoresModel == ~config.llmLocationEnabled \/ ~config.chatluna

\* location.ts 132: the LLM is not enabled or not available
llmUnavailable ==
    ~config.llmLocationEnabled \/ ~config.llmLocationModel \/ ~config.chatluna

\* mutant of inCooldown: the window is closed one tick late
inCooldown_OffByOne == config.llmFailureCooldownMs > 0 /\ now <= llmCooldownUntil

\* location.ts 137-138: the cooldown window is active
inCooldown == config.llmFailureCooldownMs > 0 /\ now < llmCooldownUntil

\* location.ts 151 and 254: if (cooldownMs > 0) llmCooldownUntil = Date.now() + cooldownMs
cooldownAfterFailure ==
    IF config.llmFailureCooldownMs > 0
    THEN now + config.llmFailureCooldownMs
    ELSE llmCooldownUntil

\* location.ts 194: a parsed location clears the cooldown
cooldownAfterSuccess == 0

\* mutant of searchQueries: the country alone is tried first
searchQueries_CountryFirst(loc) ==
    <<"country", "template", "landmark country">>
    \o (IF loc.city # "" THEN <<"city country">> ELSE << >>)

\* location.ts 214-219: the candidate queries, in order; the names of the model
\* are Latin text, which formatQuery and cleanQuery leave non-empty, so that
\* filter(Boolean) removes the city query of a location without city only
searchQueries(loc) ==
    <<"template", "landmark country">>
    \o (IF loc.city # "" THEN <<"city country">> ELSE << >>)
    \o <<"country">>

\* the synchronous head of generateLocationWithLLM (lines 131-146)
ResolverBegin(t, tk) ==
    IF llmUnavailable
    THEN \E s \in getRandomStaticLocation :
            task' = [task EXCEPT ![t] = Resolved([tk EXCEPT !.path = "disabled"], s)]
    ELSE IF inCooldown
    THEN \E s \in getRandomStaticLocation :
            task' = [task EXCEPT ![t] = Resolved([tk EXCEPT !.path = "cooldown"], s)]
    ELSE task' = [task EXCEPT ![t] = [tk EXCEPT !.pc = "createChatModel", !.path = "llm"]]

\* history: the rows of task t's previous invocation no longer count as its own
archive(log, t) ==
    [i \in DOMAIN log |-> IF log[i].by = t THEN [log[i] EXCEPT !.by = 0] ELSE log[i]]

\* a direct call of generateLocationWithLLM; the callers are numbered in the
\* order of their first call
CallResolver(t) ==
    /\ CanCall(t)
    /\ \A u \in Tasks : u < t => task[u].pc # "idle"
    /\ ResolverBegin(t, FreshTask("resolver"))
    /\ UNCHANGED <<config, now, llmCooldownUntil, travelLog, lastFail, lastFailLive, notRsv>>

\* triggerTravelSequence up to its first await (lines 22-29)
TriggerTravel(t) ==
    /\ CanCall(t)
    /\ Len(travelLog) + Cardinality({u \in Tasks : ~CanCall(u)}) < MaxRows
    /\ IF config.llmLocationEnabled /\ config.chatluna
       THEN ResolverBegin(t, FreshTask("travel"))
       ELSE \E s \in getRandomStaticLocation :
               task' = [task EXCEPT ![t] = Resolved(FreshTask("travel"), s)]
    /\ travelLog' = archive(travelLog, t)
    /\ UNCHANGED <<config, now, llmCooldownUntil, lastFail, lastFailLive, notRsv>>

\* a failure that starts the cooldown and falls back to the catalog
FailToStatic(t, ev) ==
    /\ llmCooldownUntil' = cooldownAfterFailure
    /\ lastFail' = now
    /\ lastFailLive' = now
    /\ \E s \in getRandomStaticLocation :
          task' = [task EXCEPT ![t] = Resolved([task[t] EXCEPT !.event = ev], s)]

\* await ctx.chatluna.createChatModel(...) resumes (lines 146-153, 252-256)
CreateChatModel(t) ==
    /\ task[t].pc = "createChatModel"
    /\ \E o \in {"model", "nomodel", "threw"} :
          CASE o = "model" ->
                 /\ task' = [task EXCEPT ![t].pc = "invoke"]
                 /\ UNCHANGED <<llmCooldownUntil, lastFail, lastFailLive>>
            [] o = "nomodel" -> FailToStatic(t, "nomodel")
            [] o = "threw" -> FailToStatic(t, "createThrew")
    /\ UNCHANGED <<config, now, travelLog, notRsv>>

\* lines 197-221: after a parsed location, the photo search starts if a key is set
AfterParse(tk, loc) ==
    IF config.unsplashAccessKey \/ config.pexelsApiKey
    THEN [tk EXCEPT !.location = loc, !.queries = searchQueries(loc), !.qi = 1,
                    !.pc = IF config.pexelsApiKey THEN "pexels" ELSE "unsplash"]
    ELSE Resolved(tk, loc)

\* await model.invoke(...) resumes (lines 185-195, 250-256)
Invoke(t) ==
    /\ task[t].pc = "invoke"
    /\ \/ FailToStatic(t, "invokeThrew")
       \/ \E pr \in ParsedResponses :
            LET r == pr.parsed
                tk == [task[t] EXCEPT !.event = pr.payload] IN
            IF r.res = "ok"
            THEN /\ llmCooldownUntil' = cooldownAfterSuccess
                 /\ lastFailLive' = -1
                 /\ task' = [task EXCEPT ![t] = AfterParse(tk, r.loc)]
                 /\ UNCHANGED lastFail
            ELSE /\ \E s \in getRandomStaticLocation :
                       task' = [task EXCEPT ![t] = Resolved(tk, s)]
                 /\ UNCHANGED <<llmCooldownUntil, lastFail, lastFailLive>>
    /\ UNCHANGED <<config, now, travelLog, notRsv>>

\* lines 222-240: the loop moves to the next query, or ends keeping the LLM's URL
NextQuery(tk) ==
    IF tk.qi < Len(tk.queries)
    THEN [tk EXCEPT !.qi = tk.qi + 1,
                    !.pc = IF config.pexelsApiKey THEN "pexels" ELSE "unsplash"]
    ELSE Resolved(tk, tk.location)

\* history: the search request that was just answered with photoUrl
searched(tk, api, photoUrl) ==
    [tk EXCEPT !.searches =
        Append(@, [api |-> api, query |-> tk.queries[tk.qi], url |-> photoUrl])]

\* await searchPexelsPhoto(...) resumes (lines 224-240); the function answers
\* null for no photo and for any error (pexels.ts 46-88)
SearchPexels(t) ==
    /\ task[t].pc = "pexels"
    /\ \E photoUrl \in {PexelsUrl, NoUrl} :
          LET tk == searched(task[t], "pexels", photoUrl) IN
          IF photoUrl # NoUrl
          THEN task' = [task EXCEPT ![t] =
                  Resolved(tk, [tk.location EXCEPT !.landscapeUrl = photoUrl])]
          ELSE IF config.unsplashAccessKey
          THEN task' = [task EXCEPT ![t] = [tk EXCEPT !.pc = "unsplash"]]
          ELSE task' = [task EXCEPT ![t] = NextQuery(tk)]
    /\ UNCHANGED <<config, now, llmCooldownUntil, travelLog, lastFail, lastFailLive, notRsv>>

\* await searchUnsplashPhoto(...) resumes (lines 230-240); the function answers
\* null for no photo and for any error (unsplash.ts 39-82)
SearchUnsplash(t) ==
    /\ task[t].pc = "unsplash"
    /\ \E photoUrl \in {UnsplashUrl, NoUrl} :
          LET tk == searched(task[t], "unsplash", photoUrl) IN
          IF photoUrl # NoUrl
          THEN task' = [task EXCEPT ![t] =
                  Resolved(tk, [tk.location EXCEPT !.landscapeUrl = photoUrl])]
          ELSE task' = [task EXCEPT ![t] = NextQuery(tk)]
    /\ UNCHANGED <<config, now, llmCooldownUntil, travelLog, lastFail, lastFailLive, notRsv>>

\* travel.ts 53-80: await ctx.mediaLuna.generateByName(...) resumes
Aigc(t) ==
    /\ task[t].pc = "aigc"
    /\ \E o \in {"url", "nourl", "failed", "threw"} :
          LET bg == IF o = "url" THEN AigcUrl ELSE NoUrl
              flag == IF o \in {"failed", "threw"} THEN FALSE ELSE task[t].isAIGC IN
          task' = [task EXCEPT ![t].pc = "card", ![t].isAIGC = flag,
                     ![t].backgroundUrl =
                        IF bg = NoUrl THEN task[t].location.landscapeUrl ELSE bg]
    /\ UNCHANGED <<config, now, llmCooldownUntil, travelLog, lastFail, lastFailLive, notRsv>>

\* mutant of Card: a failed render returns without writing the log row
Card_NoLogOnFailure(t) ==
    /\ task[t].pc = "card"
    /\ \E ok \in BOOLEAN :
          IF ok
          THEN task' = [task EXCEPT ![t].imageBuffer = TRUE,
                           ![t].pc = IF config.storage THEN "upload" ELSE "create"]
          ELSE task' = [task EXCEPT ![t].pc = "done"]
    /\ UNCHANGED <<config, now, llmCooldownUntil, travelLog, lastFail, lastFailLive, notRsv>>

\* travel.ts 87-93, 107-109: await generateFootprintCard(...) resumes
Card(t) ==
    /\ task[t].pc = "card"
    /\ \E ok \in BOOLEAN :
          IF ok
          THEN task' = [task EXCEPT ![t].imageBuffer = TRUE,
                           ![t].pc = IF config.storage THEN "upload" ELSE "create"]
          ELSE task' = [task EXCEPT ![t].pc = "create"]
    /\ UNCHANGED <<config, now, llmCooldownUntil, travelLog, lastFail, lastFailLive, notRsv>>

\* travel.ts 94-105: await ctx.chatluna_storage.createTempFile(...) resumes
Upload(t) ==
    /\ task[t].pc = "upload"
    /\ \E ok \in BOOLEAN :
          IF ok
          THEN task' = [task EXCEPT ![t].imageUrl = StorageUrl, ![t].pc = "create"]
          ELSE task' = [task EXCEPT ![t].pc = "create"]
    /\ UNCHANGED <<config, now, llmCooldownUntil, travelLog, lastFail, lastFailLive, notRsv>>

\* travel.ts 124: imagePath: imageUrl || ''
imagePathOf(imageUrl) == IF imageUrl = NoUrl THEN "" ELSE imageUrl

\* travel.ts 113-126: the row handed to ctx.database.create
travelRow(t, tk) ==
    [by |-> t, timestamp |-> now, country |-> tk.location.country,
     imagePath |-> imagePathOf(tk.imageUrl),
     isAIGC |-> tk.isAIGC]

\* travel.ts 112-134: await ctx.database.create(...) resumes, then the return
CreateLog(t) ==
    /\ task[t].pc = "create"
    /\ \E ok \in BOOLEAN :
          IF ok
          THEN /\ travelLog' = Append(travelLog, travelRow(t, task[t]))
               /\ task' = [task EXCEPT ![t].pc = "done"]
          ELSE /\ task' = [task EXCEPT ![t].pc = "threw"]
               /\ UNCHANGED travelLog
    /\ UNCHANGED <<config, now, llmCooldownUntil, lastFail, lastFailLive, notRsv>>

\* time passes
Tick ==
    /\ now < MaxTime
    /\ now' = now + 1
    /\ UNCHANGED <<config, llmCooldownUntil, task, travelLog, lastFail, lastFailLive, notRsv>>

(***************************************************************************)
(* Specifications of the resolver and of the travel orchestrator.          *)
(***************************************************************************)
CooldownMs == 2      \* the non-zero llmFailureCooldownMs used by the model

ResolverConfigs ==
    [llmLocationEnabled : BOOLEAN, llmLocationModel : BOOLEAN, chatluna : BOOLEAN,
     llmFailureCooldownMs : {0, CooldownMs},
     pexelsApiKey : {FALSE}, unsplashAccessKey : {FALSE},
     outputMode : {"text"}, aigc : {FALSE}, storage : {FALSE},
     tasks : {NumTasks}]

TravelConfigs ==
    [llmLocationEnabled : BOOLEAN, llmLocationModel : {TRUE}, chatluna : {TRUE},
     llmFailureCooldownMs : {CooldownMs},
     pexelsApiKey : {FALSE}, unsplashAccessKey : {FALSE},
     outputMode : {"image"}, aigc : BOOLEAN, storage : BOOLEAN,
     tasks : {NumTravels}]
    \cup
    [llmLocationEnabled : BOOLEAN, llmLocationModel : {TRUE}, chatluna : {TRUE},
     llmFailureCooldownMs : {CooldownMs},
     pexelsApiKey : {FALSE}, unsplashAccessKey : {FALSE},
     outputMode : {"text"}, aigc : {FALSE}, storage : {FALSE},
     tasks : {NumTravels}]

\* the parts of the state a specification does not use
MwIdle ==
    /\ pigUserState = {}
    /\ travelLocks = << >>
    /\ dailyUserState = << >>
    /\ cachedSunriseDate = -1
    /\ started = << >>
    /\ detached = 0

CmdIdle == pigGuildConfig = {} /\ files = {}

FnIdle == fnIn = << >> /\ fnOut = << >>

RndIdle == pages = << >>

RsvInit(cfgs) ==
    /\ config \in cfgs
    /\ now = 0
    /\ llmCooldownUntil = 0
    /\ task = [t \in 1..config.tasks |-> IdleTask]
    /\ travelLog = << >>
    /\ lastFail = -1
    /\ lastFailLive = -1
    /\ MwIdle /\ CmdIdle /\ FnIdle /\ RndIdle

InitResolver == RsvInit(ResolverConfigs)

NextResolver ==
    \/ \E t \in Tasks : CallResolver(t)
    \/ \E t \in Tasks : CreateChatModel(t)
    \/ \E t \in Tasks : Invoke(t)
    \/ Tick

SpecResolver == InitResolver /\ [][NextResolver]_vars

InitTravel == RsvInit(TravelConfigs)

NextTravel ==
    \/ \E t \in Tasks : TriggerTravel(t)
    \/ \E t \in Tasks : CreateChatModel(t)
    \/ \E t \in Tasks : Invoke(t)
    \/ \E t \in Tasks : Aigc(t)
    \/ \E t \in Tasks : Card(t)
    \/ \E t \in Tasks : Upload(t)
    \/ \E t \in Tasks : CreateLog(t)

SpecTravel == InitTravel /\ [][NextTravel]_vars

(***************************************************************************)
(* Claims about the travel orchestrator and the resolver.                  *)
(***************************************************************************)
rowsOf(t) == { i \in DOMAIN travelLog : travelLog[i].by = t }

\* C1: every invocation of triggerTravelSequence that returns has created exactly
\* one row of pig_travel_log, whatever the output mode and whatever the AI image,
\* the card render and the storage upload did; no row exists before the image
\* handling is over, and the row's imagePath is "" exactly when the returned
\* imageUrl is null (no storage URL was obtained).
C1_OneRowPerInvocation ==
    \A t \in Tasks :
        task[t].entry = "travel" =>
            /\ Cardinality(rowsOf(t)) = IF task[t].pc = "done" THEN 1 ELSE 0
            /\ \A i \in rowsOf(t) :
                   /\ travelLog[i].imagePath = "" <=> task[t].imageUrl = NoUrl
                   /\ task[t].imageUrl # NoUrl => travelLog[i].imagePath = task[t].imageUrl

\* C1 witness: an invocation in image mode returned after its card render threw,
\* and one row with an empty imagePath is in the log
C1_Witness ==
    \E t \in Tasks :
        /\ task[t].entry = "travel" /\ task[t].pc = "done"
        /\ config.outputMode = "image" /\ config.aigc /\ config.storage
        /\ ~task[t].imageBuffer
        /\ \E i \in rowsOf(t) : travelLog[i].imagePath = ""

failureEvents == {"nomodel", "createThrew", "invokeThrew", "malformed", "missing"}

\* C2: generateLocationWithLLM never throws and always returns a Location; when the
\* model is missing, createChatModel or invoke throws, the response is malformed
\* JSON or lacks country, landmark or landscapeUrl, the Location returned is an
\* entry of the static catalog.
C2_FailureReturnsStatic ==
    \A t \in Tasks :
        task[t].entry = "resolver" =>
            /\ task[t].pc # "threw"
            /\ task[t].pc = "done" =>
                   /\ task[t].location # NoLocation
                   /\ task[t].event \in failureEvents => task[t].location \in LOCATIONS

\* C2 witness: a call whose response was malformed JSON returned a catalog entry
C2_Witness ==
    \E t \in Tasks :
        /\ task[t].entry = "resolver" /\ task[t].pc = "done"
        /\ task[t].event = "malformed"
        /\ task[t].location \in LOCATIONS

\* a step in which task t calls the resolver anew
isCall(t) == CanCall(t) /\ task'[t] # task[t] /\ task'[t].entry = "resolver"

cooldownConfigured ==
    /\ config.llmLocationEnabled /\ config.llmLocationModel /\ config.chatluna
    /\ config.llmFailureCooldownMs > 0

NumMsgs == 2         \* messages handled concurrently
MwTicks == 1         \* steps of the middlewares' clock

HourMs == 60 * 60 * 1000
DayMs == 24 * HourMs
TickMs == 60 * 1000                  \* the clock of the middlewares moves in steps of 60 s
LOCK_DURATION_MS == 60 * 1000
Midnight == 3 * DayMs                \* 00:00 of the day the messages arrive
SunriseToday == Midnight + 6 * HourMs
RegularWake == Midnight - DayMs + 5 * HourMs   \* woke yesterday 05:00
OddWake == Midnight - 12 * HourMs              \* woke yesterday 12:00

dayOf(t) == t \div DayMs
hourOf(t) == (t % DayMs) \div HourMs
abs(x) == IF x < 0 THEN -x ELSE x

UserKeys == {"onebot:u1"}
userKey == "onebot:u1"
SessionGuilds == {"g1", ""}          \* "" = a private chat (no session.guildId)

\* a row of pig_user_state with the defaults of the table (0 = null timestamp)
NewRow(g) ==
    [guildId |-> g, lastWakeUp |-> 0, lastSunrise |-> 0, abnormalCount |-> 0,
     nightOwlCount |-> 0, lastNightOwlDate |-> 0, totalMessageCount |-> 0,
     nightMessageCount |-> 0, hourlyMessageCounts |-> << >>]

\* const [userState] = [] : every userState?.field is undefined
NoRow == NewRow("<undefined>")

NoState == [present |-> FALSE, recordedToday |-> FALSE, cardSentToday |-> FALSE]

merge(r, upd) == [f \in DOMAIN r |-> IF f \in DOMAIN upd THEN upd[f] ELSE r[f]]

\* ctx.database.upsert('pig_user_state', [upd], ['platform', 'userId', 'guildId'])
upsert(table, g, upd) ==
    IF \E r \in table : r.guildId = g
    THEN { IF r.guildId = g THEN merge(r, upd) ELSE r : r \in table }
    ELSE table \cup { merge(NewRow(g), upd) }

\* const [userState] = await ctx.database.get('pig_user_state', {...})
getFirst(table, g) ==
    IF \E r \in table : r.guildId = g
    THEN CHOOSE r \in table : r.guildId = g
    ELSE NoRow

NewMessage ==
    [pc |-> "new", guildId |-> "", now |-> 0,
     userState |-> NoRow, state |-> NoState, failures |-> 0, logs |-> 0, nexts |-> 0]

\* return next(): the locals of the middleware are gone
nexted(tk) ==
    [tk EXCEPT !.nexts = @ + 1, !.now = 0, !.userState = NoRow, !.state = NoState]

\* a catch block that logs, then return next()
caught(tk) == nexted([tk EXCEPT !.failures = @ + 1, !.logs = @ + 1])

\* an exception leaves the middleware
thrown(tk) ==
    [tk EXCEPT !.pc = "threw", !.failures = @ + 1, !.now = 0, !.userState = NoRow,
               !.state = NoState]

\* index.ts 950-959: the message statistics middleware up to its first await
EnterStats(tk) == [tk EXCEPT !.pc = "stats.get", !.now = now]

\* index.ts 879-880: the user is inside the lock window
locked(k) == travelLocks[k] # 0 /\ now - travelLocks[k] < LOCK_DURATION_MS

\* index.ts 866-892: the automatic detection middleware up to its first await
EnterAuto(tk) ==
    IF ~config.experimentalAutoDetect THEN EnterStats(nexted(tk))
    ELSE IF config.experimentalAutoDetectScope # "all" /\ tk.guildId = ""
    THEN EnterStats(nexted(tk))
    ELSE IF locked(userKey) THEN EnterStats(nexted(tk))
    ELSE [tk EXCEPT !.pc = "auto.get", !.now = now]

\* index.ts 810-820, 143-146: the silent record middleware up to its first await
EnterSilent(tk) ==
    IF ~config.silentRecordEnabled THEN EnterAuto(nexted(tk))
    ELSE IF tk.guildId = "" THEN EnterAuto(nexted(tk))
    ELSE IF dailyUserState[userKey].recordedToday THEN EnterAuto(nexted(tk))
    ELSE [tk EXCEPT !.state = dailyUserState[userKey],
                    !.pc = IF cachedSunriseDate = dayOf(now)
                           THEN "silent.cached" ELSE "silent.sunrise"]

notMw == <<llmCooldownUntil, lastFail, lastFailLive, cmdVars, fnVars, rndVars>>

\* a message of the user arrives
Receive(t) ==
    /\ task[t].pc = "new"
    /\ \A u \in Tasks : u < t => task[u].pc # "new"
    /\ \E g \in config.guilds :
          task' = [task EXCEPT ![t] = EnterSilent([task[t] EXCEPT !.guildId = g])]
    /\ UNCHANGED <<config, now, travelLog, mwVars, notMw>>

\* index.ts 826-830: after the sunrise is known
AfterSunrise(tk) ==
    IF now < SunriseToday
    THEN EnterAuto(nexted(tk))
    ELSE [tk EXCEPT !.pc = "silent.upsert", !.now = now]

\* index.ts 818-827, 143-150: await getTodaySunrise() resumes
SilentSunrise(t) ==
    /\ task[t].pc \in {"silent.cached", "silent.sunrise"}
    /\ IF task[t].pc = "silent.cached"
       THEN /\ task' = [task EXCEPT ![t] = AfterSunrise(task[t])]
            /\ UNCHANGED cachedSunriseDate
       ELSE \E ok \in BOOLEAN :
               IF ok
               THEN /\ cachedSunriseDate' = dayOf(now)
                    /\ task' = [task EXCEPT ![t] = AfterSunrise(task[t])]
               ELSE /\ task' = [task EXCEPT ![t] = EnterAuto(caught(task[t]))]
                    /\ UNCHANGED cachedSunriseDate
    /\ UNCHANGED <<config, now, travelLog, pigUserState, travelLocks, dailyUserState,
                   started, detached, notMw>>

\* index.ts 829-863: await ctx.database.upsert(...) resumes
SilentUpsert(t) ==
    /\ task[t].pc = "silent.upsert"
    /\ \E ok \in BOOLEAN :
          IF ok
          THEN LET tk == task[t]
                   travel == config.silentRecordAutoTravel /\ ~tk.state.cardSentToday IN
               /\ pigUserState' = upsert(pigUserState, tk.guildId,
                                         [lastWakeUp |-> tk.now, lastSunrise |-> SunriseToday])
               /\ dailyUserState' = [dailyUserState EXCEPT ![userKey] =
                      [present |-> TRUE, recordedToday |-> TRUE,
                       cardSentToday |-> tk.state.cardSentToday \/ travel]]
               /\ IF travel
                  THEN /\ started' = Append(started, [mw |-> "silent", key |-> userKey, at |-> now])
                       /\ detached' = detached + 1
                  ELSE UNCHANGED <<started, detached>>
               /\ task' = [task EXCEPT ![t] = EnterAuto(nexted(tk))]
          ELSE /\ task' = [task EXCEPT ![t] = EnterAuto(caught(task[t]))]
               /\ UNCHANGED <<pigUserState, dailyUserState, started, detached>>
    /\ UNCHANGED <<config, now, travelLog, travelLocks, cachedSunriseDate, notMw>>

\* the travel log row of a sequence started by a middleware
autoRow(t) ==
    [by |-> t, timestamp |-> now, country |-> "Iceland", imagePath |-> "", isAIGC |-> FALSE]

\* index.ts 858-860: a detached triggerTravelSequence(...).then(send).catch(log) ends
DetachedTravel ==
    /\ detached > 0
    /\ detached' = detached - 1
    /\ \E ok \in BOOLEAN :
          travelLog' = IF ok THEN Append(travelLog, autoRow(0)) ELSE travelLog
    /\ UNCHANGED <<config, now, task, pigUserState, travelLocks, dailyUserState,
                   cachedSunriseDate, started, notMw>>

\* index.ts 888-898: await ctx.database.get(...) resumes; the call is outside the try
AutoGet(t) ==
    /\ task[t].pc = "auto.get"
    /\ \E ok \in BOOLEAN :
          IF ok
          THEN task' = [task EXCEPT ![t].userState = getFirst(pigUserState, task[t].guildId),
                                    ![t].pc = "auto.sunrise"]
          ELSE task' = [task EXCEPT ![t] = thrown(task[t])]
    /\ UNCHANGED <<config, now, travelLog, mwVars, notMw>>

dayStart == SunriseToday - 2 * HourMs

\* index.ts 901: the first message of the day
firstOfDay(tk) ==
    /\ tk.now >= dayStart
    /\ (tk.userState.lastWakeUp = 0 \/ tk.userState.lastWakeUp < dayStart)

\* index.ts 913-916: the wake time is abnormal
abnormal(tk) ==
    /\ tk.userState.lastWakeUp # 0
    /\ abs(tk.now - tk.userState.lastWakeUp - DayMs) > config.abnormalThreshold * HourMs

\* index.ts 898-903, 942-946: await getSunriseInfo(...) resumes
AutoSunrise(t) ==
    /\ task[t].pc = "auto.sunrise"
    /\ \E ok \in BOOLEAN :
          IF ok
          THEN IF firstOfDay(task[t])
               THEN task' = [task EXCEPT ![t].pc = "auto.upsert"]
               ELSE task' = [task EXCEPT ![t] = EnterStats(nexted(task[t]))]
          ELSE task' = [task EXCEPT ![t] = EnterStats(caught(task[t]))]
    /\ UNCHANGED <<config, now, travelLog, mwVars, notMw>>

\* index.ts 903-926: await ctx.database.upsert(...) resumes (the wake-up record)
AutoUpsert(t) ==
    /\ task[t].pc = "auto.upsert"
    /\ \E ok \in BOOLEAN :
          IF ok
          THEN LET tk == task[t] IN
               /\ pigUserState' = upsert(pigUserState, tk.guildId,
                      [lastWakeUp |-> tk.now, lastSunrise |-> SunriseToday,
                       abnormalCount |-> tk.userState.abnormalCount])
               /\ IF abnormal(tk)
                  THEN /\ travelLocks' = [travelLocks EXCEPT ![userKey] = tk.now]
                       /\ task' = [task EXCEPT ![t].pc = "auto.count"]
                  ELSE /\ task' = [task EXCEPT ![t] = EnterStats(nexted(tk))]
                       /\ UNCHANGED travelLocks
          ELSE /\ task' = [task EXCEPT ![t] = EnterStats(caught(task[t]))]
               /\ UNCHANGED <<pigUserState, travelLocks>>
    /\ UNCHANGED <<config, now, travelLog, dailyUserState, cachedSunriseDate, started,
                   detached, notMw>>

\* index.ts 921-929: await ctx.database.upsert(...) resumes (abnormalCount + 1)
AutoCount(t) ==
    /\ task[t].pc = "auto.count"
    /\ \E ok \in BOOLEAN :
          IF ok
          THEN /\ pigUserState' = upsert(pigUserState, task[t].guildId,
                      [abnormalCount |-> task[t].userState.abnormalCount + 1])
               /\ task' = [task EXCEPT ![t].pc = "auto.notify"]
          ELSE /\ task' = [task EXCEPT ![t] = EnterStats(caught(task[t]))]
               /\ UNCHANGED pigUserState
    /\ UNCHANGED <<config, now, travelLog, travelLocks, dailyUserState, cachedSunriseDate,
                   started, detached, notMw>>

\* index.ts 929-937: await session.send(...) resumes, triggerTravelSequence is called
AutoNotify(t) ==
    /\ task[t].pc = "auto.notify"
    /\ \E ok \in BOOLEAN :
          IF ok
          THEN /\ started' = Append(started, [mw |-> "auto", key |-> userKey, at |-> now])
               /\ task' = [task EXCEPT ![t].pc = "auto.travel"]
          ELSE /\ task' = [task EXCEPT ![t] = EnterStats(caught(task[t]))]
               /\ UNCHANGED started
    /\ UNCHANGED <<config, now, travelLog, pigUserState, travelLocks, dailyUserState,
                   cachedSunriseDate, detached, notMw>>

\* index.ts 937-938: await triggerTravelSequence(...) resumes (the sequence as one step)
AutoTravel(t) ==
    /\ task[t].pc = "auto.travel"
    /\ \E ok \in BOOLEAN :
          IF ok
          THEN /\ travelLog' = Append(travelLog, autoRow(t))
               /\ task' = [task EXCEPT ![t].pc = "auto.reply"]
          ELSE /\ task' = [task EXCEPT ![t] = EnterStats(caught(task[t]))]
               /\ UNCHANGED travelLog
    /\ UNCHANGED <<config, now, mwVars, notMw>>

\* index.ts 938-946: await session.send(formatTravelMessage(...)) resumes
AutoReply(t) ==
    /\ task[t].pc = "auto.reply"
    /\ \E ok \in BOOLEAN :
          IF ok
          THEN task' = [task EXCEPT ![t] = EnterStats(nexted(task[t]))]
          ELSE task' = [task EXCEPT ![t] = EnterStats(caught(task[t]))]
    /\ UNCHANGED <<config, now, travelLog, mwVars, notMw>>

\* index.ts 959-963: await ctx.database.get(...) resumes; there is no try
StatsGet(t) ==
    /\ task[t].pc = "stats.get"
    /\ \E ok \in BOOLEAN :
          IF ok
          THEN task' = [task EXCEPT ![t].userState = getFirst(pigUserState, task[t].guildId),
                                    ![t].pc = "stats.upsert"]
          ELSE task' = [task EXCEPT ![t] = thrown(task[t])]
    /\ UNCHANGED <<config, now, travelLog, mwVars, notMw>>

\* index.ts 978-986
isNightOwlTime(h) ==
    IF config.nightOwlStartHour <= config.nightOwlEndHour
    THEN h >= config.nightOwlStartHour /\ h < config.nightOwlEndHour
    ELSE h >= config.nightOwlStartHour \/ h < config.nightOwlEndHour

\* index.ts 966-975: the hourly counts with the current hour incremented
bumpHour(counts, h) ==
    [k \in DOMAIN counts \cup {h} |->
        IF k = h THEN (IF h \in DOMAIN counts THEN counts[h] ELSE 0) + 1 ELSE counts[k]]

\* index.ts 989-1018: the row written by the statistics middleware
updateData(tk) ==
    LET us == tk.userState
        night == isNightOwlTime(hourOf(tk.now))
        base == [totalMessageCount |-> us.totalMessageCount + 1,
                 nightMessageCount |-> us.nightMessageCount + (IF night THEN 1 ELSE 0),
                 hourlyMessageCounts |-> bumpHour(us.hourlyMessageCounts, hourOf(tk.now))]
        alreadyRecordedToday ==
            us.lastNightOwlDate # 0 /\ dayOf(us.lastNightOwlDate) = dayOf(tk.now)
    IN  IF config.nightOwlEnabled /\ night /\ ~alreadyRecordedToday
        THEN [totalMessageCount |-> base.totalMessageCount,
              nightMessageCount |-> base.nightMessageCount,
              hourlyMessageCounts |-> base.hourlyMessageCounts,
              nightOwlCount |-> us.nightOwlCount + 1,
              lastNightOwlDate |-> tk.now]
        ELSE base

\* index.ts 1020-1022: await ctx.database.upsert(...) resumes; there is no try
StatsUpsert(t) ==
    /\ task[t].pc = "stats.upsert"
    /\ \E ok \in BOOLEAN :
          IF ok
          THEN /\ pigUserState' = upsert(pigUserState, task[t].guildId, updateData(task[t]))
               /\ task' = [task EXCEPT ![t] = [nexted(task[t]) EXCEPT !.pc = "passed"]]
          ELSE /\ task' = [task EXCEPT ![t] = thrown(task[t])]
               /\ UNCHANGED pigUserState
    /\ UNCHANGED <<config, now, travelLog, travelLocks, dailyUserState, cachedSunriseDate,
                   started, detached, notMw>>

\* 60 seconds pass
MwTick ==
    /\ now + TickMs <= config.startTime + MwTicks * TickMs
    /\ now' = now + TickMs
    /\ UNCHANGED <<config, task, travelLog, mwVars, notMw>>

\* the messages arrive shortly before 04:00 (two hours before sunrise, inside the
\* default night-owl window) or shortly before 06:00 (sunrise, outside the window)
StartTimes == {dayStart - TickMs, SunriseToday - TickMs}

MwConfigs ==
    { c \in [silentRecordEnabled : BOOLEAN, silentRecordAutoTravel : BOOLEAN,
             experimentalAutoDetect : BOOLEAN,
             experimentalAutoDetectScope : {"guild", "all"},
             abnormalThreshold : {3}, nightOwlEnabled : BOOLEAN,
             nightOwlStartHour : {0}, nightOwlEndHour : {5},
             startTime : StartTimes, guilds : {SessionGuilds}] :
        /\ c.silentRecordAutoTravel => c.silentRecordEnabled
        /\ c.experimentalAutoDetectScope = "all" => c.experimentalAutoDetect }

\* the table before the messages: empty, or a row per guild from yesterday
InitialTables(guilds) ==
    { {} } \cup
    { { [NewRow(g) EXCEPT !.lastWakeUp = w, !.lastSunrise = SunriseToday - DayMs] :
            g \in guilds } : w \in {RegularWake, OddWake} }

MwInit(cfgs) ==
    /\ config \in cfgs
    /\ now = config.startTime
    /\ task = [t \in 1..NumMsgs |-> NewMessage]
    /\ pigUserState \in InitialTables(config.guilds)
    /\ travelLocks = [k \in UserKeys |-> 0]
    /\ dailyUserState = [k \in UserKeys |-> NoState]
    /\ cachedSunriseDate = -1
    /\ started = << >>
    /\ detached = 0
    /\ travelLog = << >>
    /\ llmCooldownUntil = 0 /\ lastFail = -1 /\ lastFailLive = -1
    /\ CmdIdle /\ FnIdle /\ RndIdle

InitMw == MwInit(MwConfigs)

NextMw ==
    \/ \E t \in Tasks : Receive(t)
    \/ \E t \in Tasks : SilentSunrise(t)
    \/ \E t \in Tasks : SilentUpsert(t)
    \/ DetachedTravel
    \/ \E t \in Tasks : AutoGet(t)
    \/ \E t \in Tasks : AutoSunrise(t)
    \/ \E t \in Tasks : AutoUpsert(t)
    \/ \E t \in Tasks : AutoCount(t)
    \/ \E t \in Tasks : AutoNotify(t)
    \/ \E t \in Tasks : AutoTravel(t)
    \/ \E t \in Tasks : AutoReply(t)
    \/ \E t \in Tasks : StatsGet(t)
    \/ \E t \in Tasks : StatsUpsert(t)
    \/ MwTick

SpecMw == InitMw /\ [][NextMw]_vars

(***************************************************************************)
(* Claims about the middlewares.                                           *)
(***************************************************************************)
autoStarts == { i \in DOMAIN started : started[i].mw = "auto" }

\* C4: for every user key and under every interleaving of that user's message
\* handlers, the automatic detection middleware starts at most one travel
\* sequence within any window of LOCK_DURATION_MS (60 seconds): two of its
\* starts for one key are at least LOCK_DURATION_MS apart.
C4_OneAutoTravelPerWindow ==
    \A i, j \in autoStarts :
        (i < j /\ started[i].key = started[j].key) =>
            started[j].at - started[i].at >= LOCK_DURATION_MS

counters == {"totalMessageCount", "nightMessageCount", "nightOwlCount", "abnormalCount"}

\* C5: for every row of pig_user_state, totalMessageCount, nightMessageCount,
\* nightOwlCount and abnormalCount never decrease from one state to the next,
\* under every interleaving of the message statistics and automatic detection
\* middlewares handling messages of the same user.
C5_CountersNeverDecrease ==
    [][\A r \in pigUserState : \A q \in pigUserState' :
          q.guildId = r.guildId => \A f \in counters : q[f] >= r[f]]_vars

\* C6: each of the three middlewares logs every failure of its database and
\* sunrise calls and still calls next(): no exception leaves a middleware, every
\* failure was logged, and a message that is through was passed on three times.
C6_FailuresLoggedAndPassedOn ==
    \A t \in Tasks :
        /\ task[t].pc # "threw"
        /\ task[t].logs = task[t].failures
        /\ task[t].pc = "passed" => task[t].nexts = 3

(***************************************************************************)
(* The command handlers of index.ts. One task handles one command sent in  *)
(* guild "g1" or in a private chat. Lookups of member names through the    *)
(* bot are awaited inside their own try blocks and change nothing that is  *)
(* modelled. failed records the kind of the call that failed: "db",        *)
(* "render", "send", "fs" or "http".                                       *)
(***************************************************************************)
NumCmds == 1         \* commands handled concurrently

NoImage == [scheme |-> "none", id |-> 0]
OldFile == [scheme |-> "file", id |-> 0]
RemoteImage == [scheme |-> "https", id |-> 0]
NewFile(t) == [scheme |-> "file", id |-> t]   \* guild_bg_<platform>_<guild>_<Date.now()><ext>

Commands == {"pig", "pig.summary", "pig.rank", "pig.sleep", "pig.map", "pig.bg"}

\* the sender of a command: the authority of the user row (0 without a row,
\* index.ts 668) and the first member role the adapter reports (index.ts 670-673)
Member == [authority |-> 0, memberRole |-> "member"]
Manager == [authority |-> 3, memberRole |-> "member"]
Senders == [authority : {0, 2, 3}, memberRole : {"member", "admin", "owner"}]

NewCommand ==
    [pc |-> "new", cmd |-> "none", inGuild |-> FALSE, all |-> FALSE, reset |-> FALSE,
     authority |-> 0, memberRole |-> "member", hasImage |-> FALSE, monthOk |-> TRUE, reply |-> "none",
     failed |-> "none",
     bgInfo |-> NoImage]

\* index.ts 676: the member role makes the sender a guild administrator
isGuildAdmin(memberRole) == memberRole = "owner" \/ memberRole = "admin"

\* mutant of mayManage: authority 2 suffices
mayManage_AuthorityTwo(tk) == ~(tk.authority < 2 /\ ~isGuildAdmin(tk.memberRole))

\* index.ts 682: the sender passes the permission check of pig.bg
mayManage(tk) == ~(tk.authority < 3 /\ ~isGuildAdmin(tk.memberRole))

\* the handler returns a reply
returned(tk, reply) == [tk EXCEPT !.pc = "returned", !.reply = reply, !.bgInfo = NoImage]

\* a call fails inside a try block whose catch returns an error text
failedInTry(tk, kind) == [returned(tk, "error") EXCEPT !.failed = kind]

\* a call fails outside every try block: the exception leaves the handler
failedOutside(tk, kind) ==
    [tk EXCEPT !.pc = "threw", !.failed = kind, !.bgInfo = NoImage]

\* background.ts 46-61: the background image of guild g1, NoImage if none
getGuildBackgroundInfo ==
    IF \E r \in pigGuildConfig : r.guildId = "g1" /\ r.backgroundImage # NoImage
    THEN (CHOOSE r \in pigGuildConfig : r.guildId = "g1").backgroundImage
    ELSE NoImage

\* background.ts 22-41
setGuildBackgroundImage(image) ==
    IF image = NoImage
    THEN { r \in pigGuildConfig : r.guildId # "g1" }
    ELSE IF \E r \in pigGuildConfig : r.guildId = "g1"
    THEN { IF r.guildId = "g1" THEN [r EXCEPT !.backgroundImage = image] ELSE r :
              r \in pigGuildConfig }
    ELSE pigGuildConfig \cup { [guildId |-> "g1", backgroundImage |-> image] }

\* the synchronous head of each handler
commandHead(tk) ==
    CASE tk.cmd = "pig" -> [tk EXCEPT !.pc = "pig.travel"]
      [] tk.cmd = "pig.summary" ->
            IF ~tk.monthOk THEN returned(tk, "text")
            ELSE [tk EXCEPT !.pc = "summary.send"]
      [] tk.cmd \in {"pig.rank", "pig.sleep"} ->
            IF ~tk.inGuild THEN returned(tk, "text")
            ELSE [tk EXCEPT !.pc = IF tk.cmd = "pig.rank" THEN "rank.send" ELSE "sleep.send"]
      [] tk.cmd = "pig.map" ->
            IF tk.all /\ ~tk.inGuild THEN returned(tk, "text")
            ELSE [tk EXCEPT !.pc = "map.send"]
      [] tk.cmd = "pig.bg" ->
            IF ~tk.inGuild THEN returned(tk, "text")
            ELSE [tk EXCEPT !.pc = "bg.getUser"]

notCmd == <<now, llmCooldownUntil, lastFail, lastFailLive, mwVars, fnVars, rndVars>>

\* a command arrives, with the options and arguments its handler reads
CmdReceive(t) ==
    /\ task[t].pc = "new"
    /\ \E c \in config.commands, who \in config.senders, g, a, r, im, mo \in BOOLEAN :
          /\ c \notin {"pig.summary", "pig.map"} => ~a
          /\ c # "pig.bg" => ~r /\ ~im /\ who = Member
          /\ c # "pig.summary" => mo
          /\ task' = [task EXCEPT ![t] =
                commandHead([task[t] EXCEPT !.cmd = c, !.inGuild = g, !.all = a,
                                            !.reset = r, !.authority = who.authority,
                                            !.memberRole = who.memberRole, !.hasImage = im,
                                            !.monthOk = mo])]
    /\ UNCHANGED <<config, travelLog, cmdVars, notCmd>>

\* index.ts 231-232, travel.ts 22-135: await triggerTravelSequence(...) resumes (the
\* sequence as one step); the call is outside every try block
PigTravel(t) ==
    /\ task[t].pc = "pig.travel"
    /\ \E o \in {"card", "renderFailed", "createFailed"} :
          CASE o = "card" ->
                 /\ travelLog' = Append(travelLog, autoRow(t))
                 /\ task' = [task EXCEPT ![t] = returned(task[t], "travel")]
            [] o = "renderFailed" ->
                 /\ travelLog' = Append(travelLog, autoRow(t))
                 /\ task' = [task EXCEPT ![t] =
                                [returned(task[t], "travelText") EXCEPT !.failed = "render"]]
            [] o = "createFailed" ->
                 /\ task' = [task EXCEPT ![t] = failedOutside(task[t], "db")]
                 /\ UNCHANGED travelLog
    /\ UNCHANGED <<config, cmdVars, notCmd>>

\* a handler that sends, queries and renders: the step after pc when the call succeeds
afterOk(tk) ==
    LET empty == travelLog = << >>
        guildScope == config.monthlySummaryScope = "guild" IN
    CASE tk.pc = "summary.send" ->
            IF tk.all
            THEN IF guildScope /\ ~tk.inGuild THEN returned(tk, "text")
                 ELSE [tk EXCEPT !.pc = "summary.users"]
            ELSE [tk EXCEPT !.pc = "summary.prepare"]
      [] tk.pc = "summary.users" ->
            IF empty THEN returned(tk, "text") ELSE [tk EXCEPT !.pc = "summary.group"]
      [] tk.pc = "summary.group" ->
            IF guildScope /\ tk.inGuild THEN [tk EXCEPT !.pc = "summary.background"]
            ELSE [tk EXCEPT !.pc = "summary.render"]
      [] tk.pc = "summary.background" -> [tk EXCEPT !.pc = "summary.render"]
      [] tk.pc = "summary.prepare" -> [tk EXCEPT !.pc = "summary.render"]
      [] tk.pc = "rank.send" -> [tk EXCEPT !.pc = "rank.entries"]
      [] tk.pc = "rank.entries" ->
            IF empty THEN returned(tk, "text") ELSE [tk EXCEPT !.pc = "rank.background"]
      [] tk.pc = "rank.background" -> [tk EXCEPT !.pc = "rank.render"]
      [] tk.pc = "sleep.send" -> [tk EXCEPT !.pc = "sleep.entries"]
      [] tk.pc = "sleep.entries" ->
            IF \A r \in pigUserState : r.guildId # "g1" \/ r.nightOwlCount = 0
            THEN returned(tk, "text") ELSE [tk EXCEPT !.pc = "sleep.background"]
      [] tk.pc = "sleep.background" -> [tk EXCEPT !.pc = "sleep.render"]
      [] tk.pc = "map.send" -> [tk EXCEPT !.pc = "map.data"]
      [] tk.pc = "map.data" ->
            IF empty THEN returned(tk, "text") ELSE [tk EXCEPT !.pc = "map.render"]
      [] OTHER -> returned(tk, "image")

\* the kind of call awaited at pc
callKind(pc) ==
    IF pc \in {"summary.send", "rank.send", "sleep.send", "map.send", "bg.send"} THEN "send"
    ELSE IF pc \in {"summary.render", "rank.render", "sleep.render", "map.render"}
    THEN "render"
    ELSE IF pc \in {"bg.mkdir", "bg.write", "bg.resetUnlink", "bg.unlinkOld"} THEN "fs"
    ELSE IF pc = "bg.download" THEN "http"
    ELSE "db"

\* an await of a handler whose calls after the first send are inside one try block
resume(t, pcs, sendInTry) ==
    /\ task[t].pc \in pcs
    /\ \E ok \in BOOLEAN :
          LET tk == task[t]
              kind == callKind(tk.pc) IN
          IF ok THEN task' = [task EXCEPT ![t] = afterOk(tk)]
          ELSE IF kind = "send" /\ ~sendInTry
          THEN task' = [task EXCEPT ![t] = failedOutside(tk, kind)]
          ELSE task' = [task EXCEPT ![t] = failedInTry(tk, kind)]
    /\ UNCHANGED <<config, travelLog, cmdVars, notCmd>>

\* index.ts 273-406: an await of pig.summary resumes
SummaryResume(t) ==
    resume(t, {"summary.send", "summary.users", "summary.group", "summary.background",
               "summary.prepare", "summary.render"}, FALSE)

\* index.ts 417-464: an await of pig.rank resumes
RankResume(t) ==
    resume(t, {"rank.send", "rank.entries", "rank.background", "rank.render"}, TRUE)

\* index.ts 475-522: an await of pig.sleep resumes
SleepResume(t) ==
    resume(t, {"sleep.send", "sleep.entries", "sleep.background", "sleep.render"}, TRUE)

\* index.ts 539-577, 626-648: an await of pig.map resumes
MapResume(t) == resume(t, {"map.send", "map.data", "map.render"}, FALSE)

\* index.ts 667-747: await ctx.database.getUser(...) resumes; outside every try block
BgGetUser(t) ==
    /\ task[t].pc = "bg.getUser"
    /\ \E ok \in BOOLEAN :
          LET tk == task[t] IN
          IF ~ok THEN task' = [task EXCEPT ![t] = failedOutside(tk, "db")]
          ELSE IF ~mayManage(tk) THEN task' = [task EXCEPT ![t].pc = "bg.view"]
          ELSE IF tk.reset THEN task' = [task EXCEPT ![t].pc = "bg.resetInfo"]
          ELSE IF ~tk.hasImage THEN task' = [task EXCEPT ![t].pc = "bg.view"]
          ELSE task' = [task EXCEPT ![t].pc = "bg.send"]
    /\ UNCHANGED <<config, travelLog, cmdVars, notCmd>>

\* index.ts 682-690, 738-746: await getGuildBackgroundInfo(...) resumes; outside
\* every try block
BgView(t) ==
    /\ task[t].pc = "bg.view"
    /\ \E ok \in BOOLEAN :
          IF ok THEN task' = [task EXCEPT ![t] = returned(task[t], "view")]
          ELSE task' = [task EXCEPT ![t] = failedOutside(task[t], "db")]
    /\ UNCHANGED <<config, travelLog, cmdVars, notCmd>>

\* index.ts 696-712: the awaits of pig.bg -r
BgReset(t) ==
    /\ task[t].pc \in {"bg.resetInfo", "bg.resetUnlink", "bg.resetRemove"}
    /\ \E ok \in BOOLEAN :
          LET tk == task[t] IN
          CASE tk.pc = "bg.resetInfo" ->
                 /\ IF ~ok THEN task' = [task EXCEPT ![t] = failedOutside(tk, "db")]
                    ELSE IF getGuildBackgroundInfo = NoImage
                    THEN task' = [task EXCEPT ![t] = returned(tk, "text")]
                    ELSE task' = [task EXCEPT ![t].bgInfo = getGuildBackgroundInfo,
                                     ![t].pc = IF getGuildBackgroundInfo.scheme = "file"
                                               THEN "bg.resetUnlink" ELSE "bg.resetRemove"]
                 /\ UNCHANGED cmdVars
            [] tk.pc = "bg.resetUnlink" ->
                 /\ files' = IF ok THEN files \ {tk.bgInfo} ELSE files
                 /\ task' = [task EXCEPT ![t].pc = "bg.resetRemove"]
                 /\ UNCHANGED pigGuildConfig
            [] tk.pc = "bg.resetRemove" ->
                 IF ok
                 THEN /\ pigGuildConfig' = setGuildBackgroundImage(NoImage)
                      /\ task' = [task EXCEPT ![t] = returned(tk, "text")]
                      /\ UNCHANGED files
                 ELSE /\ task' = [task EXCEPT ![t] = failedOutside(tk, "db")]
                      /\ UNCHANGED cmdVars
    /\ UNCHANGED <<config, travelLog, notCmd>>

\* index.ts 749-806: the awaits of pig.bg with an image
BgSet(t) ==
    /\ task[t].pc \in {"bg.send", "bg.mkdir", "bg.download", "bg.oldInfo", "bg.unlinkOld",
                       "bg.write", "bg.upsert"}
    /\ \E ok \in BOOLEAN :
          LET tk == task[t]
              kind == callKind(tk.pc) IN
          CASE tk.pc = "bg.send" ->
                 /\ task' = [task EXCEPT ![t] =
                       IF ok THEN [tk EXCEPT !.pc = "bg.mkdir"] ELSE failedOutside(tk, kind)]
                 /\ UNCHANGED cmdVars
            [] tk.pc = "bg.mkdir" ->
                 /\ task' = [task EXCEPT ![t] =
                       IF ok THEN [tk EXCEPT !.pc = "bg.download"] ELSE failedInTry(tk, kind)]
                 /\ UNCHANGED cmdVars
            [] tk.pc = "bg.download" ->
                 /\ \E image \in BOOLEAN :
                       task' = [task EXCEPT ![t] =
                          IF ~ok THEN failedInTry(tk, kind)
                          ELSE IF ~image THEN returned(tk, "text")
                          ELSE [tk EXCEPT !.pc = "bg.oldInfo"]]
                 /\ UNCHANGED cmdVars
            [] tk.pc = "bg.oldInfo" ->
                 /\ task' = [task EXCEPT ![t] =
                       IF ~ok THEN failedInTry(tk, kind)
                       ELSE IF getGuildBackgroundInfo.scheme = "file"
                       THEN [tk EXCEPT !.pc = "bg.unlinkOld", !.bgInfo = getGuildBackgroundInfo]
                       ELSE [tk EXCEPT !.pc = "bg.write"]]
                 /\ UNCHANGED cmdVars
            [] tk.pc = "bg.unlinkOld" ->
                 /\ files' = IF ok THEN files \ {tk.bgInfo} ELSE files
                 /\ task' = [task EXCEPT ![t].pc = "bg.write", ![t].bgInfo = NoImage]
                 /\ UNCHANGED pigGuildConfig
            [] tk.pc = "bg.write" ->
                 /\ files' = IF ok THEN files \cup {NewFile(t)} ELSE files
                 /\ task' = [task EXCEPT ![t] =
                       IF ok THEN [tk EXCEPT !.pc = "bg.upsert"] ELSE failedInTry(tk, kind)]
                 /\ UNCHANGED pigGuildConfig
            [] tk.pc = "bg.upsert" ->
                 /\ pigGuildConfig' =
                       IF ok THEN setGuildBackgroundImage(NewFile(t)) ELSE pigGuildConfig
                 /\ task' = [task EXCEPT ![t] =
                       IF ok THEN returned(tk, "text") ELSE failedInTry(tk, kind)]
                 /\ UNCHANGED files
    /\ UNCHANGED <<config, travelLog, notCmd>>

CmdConfigs ==
    [monthlySummaryScope : {"guild", "global"}, tasks : {NumCmds},
     commands : {Commands}, senders : {{Member, Manager}}]

CmdInit(cfgs) ==
    /\ config \in cfgs
    /\ task = [t \in 1..config.tasks |-> NewCommand]
    /\ now = Midnight
    /\ travelLog \in { << >>, <<autoRow(0)>> }
    /\ pigUserState \in { {}, {[NewRow("g1") EXCEPT !.nightOwlCount = 1]} }
    /\ pigGuildConfig \in { {} } \cup
          { {[guildId |-> "g1", backgroundImage |-> b]} : b \in {OldFile, RemoteImage} }
    /\ files = { r.backgroundImage : r \in { q \in pigGuildConfig : q.backgroundImage.scheme = "file" } }
    /\ travelLocks = << >> /\ dailyUserState = << >> /\ cachedSunriseDate = -1
    /\ started = << >> /\ detached = 0
    /\ llmCooldownUntil = 0 /\ lastFail = -1 /\ lastFailLive = -1
    /\ FnIdle /\ RndIdle

InitCmd == CmdInit(CmdConfigs)

NextCmd ==
    \/ \E t \in Tasks : CmdReceive(t)
    \/ \E t \in Tasks : PigTravel(t)
    \/ \E t \in Tasks : SummaryResume(t)
    \/ \E t \in Tasks : RankResume(t)
    \/ \E t \in Tasks : SleepResume(t)
    \/ \E t \in Tasks : MapResume(t)
    \/ \E t \in Tasks : BgGetUser(t)
    \/ \E t \in Tasks : BgView(t)
    \/ \E t \in Tasks : BgReset(t)
    \/ \E t \in Tasks : BgSet(t)

SpecCmd == InitCmd /\ [][NextCmd]_vars

(***************************************************************************)
(* Claims about the command handlers.                                      *)
(***************************************************************************)
\* C7: in every command handler a failure of a database call or of a card
\* render is caught and the handler returns a plain-text message: no exception
\* leaves a handler, and a handler that has ended after such a failure has
\* replied with the error text (pig, whose card render fails inside
\* triggerTravelSequence, with the travel text without the card).
C7_CommandFailuresBecomeErrorText ==
    \A t \in Tasks :
        /\ (task[t].pc = "threw" => task[t].failed \notin {"db", "render"})
        /\ (task[t].pc = "returned" /\ task[t].failed \in {"db", "render"}) =>
               task[t].reply \in {"error", "travelText"}

(***************************************************************************)
(* Pure functions. fnIn holds the argument, fnOut the result once the      *)
(* function has been applied.                                              *)
(***************************************************************************)
NoResult == [done |-> FALSE]

\* the parts of the state a pure function does not use
RsvIdle ==
    /\ config = [tasks |-> 0]
    /\ now = 0
    /\ llmCooldownUntil = 0
    /\ task = << >>
    /\ travelLog = << >>
    /\ lastFail = -1
    /\ lastFailLive = -1

notFn == <<rsvVars, mwVars, cmdVars, rndVars>>

(***************************************************************************)
(* getSunriseTimezoneHint (location.ts 42-86). The argument is the UTC     *)
(* wall-clock time the call reads with new Date().                         *)
(***************************************************************************)
\* location.ts 53-57
normalizeOffset_NoWrap(offset) == offset

\* location.ts 53-57
normalizeOffset(offset) ==
    IF offset < -12 THEN offset + 24
    ELSE IF offset > 14 THEN offset - 24
    ELSE offset

\* location.ts 63-72
getRegionByOffset(offset) ==
    IF offset >= 9 /\ offset <= 12 THEN "east-asia"
    ELSE IF offset >= 5 /\ offset <= 8 THEN "south-asia"
    ELSE IF offset >= 2 /\ offset <= 4 THEN "middle-east"
    ELSE IF offset >= -1 /\ offset <= 1 THEN "west-europe"
    ELSE IF offset >= -5 /\ offset <= -2 THEN "south-america"
    ELSE IF offset >= -8 /\ offset <= -6 THEN "north-america"
    ELSE IF offset >= -12 /\ offset <= -9 THEN "pacific"
    ELSE "worldwide"

\* location.ts 74: `UTC+${offset}` or `UTC${offset}`
formatOffset(offset) == [prefix |-> IF offset >= 0 THEN "UTC+" ELSE "UTC", number |-> offset]

\* location.ts 42-86
getSunriseTimezoneHint(utc) ==
    LET beijingTotal == utc.hour * 60 + utc.minute + 8 * 60
        beijingHour == (beijingTotal \div 60) % 24
        beijingMinute == beijingTotal % 60
        targetLocalHour == 6
        idealOffset == targetLocalHour - beijingHour + 8
        minOffset == normalizeOffset(idealOffset - 1)
        maxOffset == normalizeOffset(idealOffset + 1)
    IN  [done |-> TRUE,
         utcOffsetRange |-> <<formatOffset(minOffset), formatOffset(maxOffset)>>,
         regionHint |-> getRegionByOffset(idealOffset),
         beijingTime |-> <<beijingHour, beijingMinute>>,
         beijingHour |-> beijingHour,
         idealOffset |-> idealOffset,
         minOffset |-> minOffset,
         maxOffset |-> maxOffset]

Minutes == {0, 29, 59}

InitSunrise ==
    /\ fnIn \in [hour : 0..23, minute : Minutes]
    /\ fnOut = NoResult
    /\ RsvIdle /\ MwIdle /\ CmdIdle /\ RndIdle

SunriseHint ==
    /\ ~fnOut.done
    /\ fnOut' = getSunriseTimezoneHint(fnIn)
    /\ UNCHANGED <<fnIn, notFn>>

NextSunrise == SunriseHint

SpecSunrise == InitSunrise /\ [][NextSunrise]_vars

inRange(o) == o >= -12 /\ o <= 14

\* C8 as stated: for every hour of the UTC+8 zone, idealOffset, minOffset and
\* maxOffset lie in [-12, 14] and maxOffset - minOffset = 2 with idealOffset as
\* the midpoint.
C8_BandIsTwoWide ==
    fnOut.done =>
        /\ inRange(fnOut.idealOffset) /\ inRange(fnOut.minOffset) /\ inRange(fnOut.maxOffset)
        /\ fnOut.maxOffset - fnOut.minOffset = 2
        /\ fnOut.minOffset + fnOut.maxOffset = 2 * fnOut.idealOffset

\* C8 amended: for every hour h of the UTC+8 zone, idealOffset = 14 - h, and
\* idealOffset, minOffset and maxOffset lie in [-12, 14]; for h in 1..23 the band
\* is the 2-wide interval centred on idealOffset; for h = 0 (idealOffset = 14) the
\* upper bound wraps: minOffset = 13 and maxOffset = -9, so maxOffset - minOffset
\* = -22, which is 2 modulo 24.
C8_BandIsTwoWideModulo24 ==
    fnOut.done =>
        /\ fnOut.idealOffset = 14 - fnOut.beijingHour
        /\ inRange(fnOut.idealOffset) /\ inRange(fnOut.minOffset) /\ inRange(fnOut.maxOffset)
        /\ (fnOut.maxOffset - fnOut.minOffset - 2) % 24 = 0
        /\ fnOut.beijingHour # 0 =>
              /\ fnOut.maxOffset - fnOut.minOffset = 2
              /\ fnOut.minOffset + fnOut.maxOffset = 2 * fnOut.idealOffset
        /\ fnOut.beijingHour = 0 => fnOut.minOffset = 13 /\ fnOut.maxOffset = -9

\* C8 witness: the hint computed at 00:29 in the UTC+8 zone, whose band wraps
C8_Witness ==
    /\ fnOut.done
    /\ fnIn = [hour |-> 16, minute |-> 29]
    /\ fnOut.beijingHour = 0
    /\ fnOut.maxOffset < fnOut.minOffset

(***************************************************************************)
(* getPigLeaderboard (leaderboard.ts 354-402). The argument is the list of *)
(* pig_travel_log rows the query returns for the guild, and the limit.     *)
(***************************************************************************)
MaxLogs == 4
MaxLimit == 2

RankUsers == {"u1", "u2", "u3"}

\* [country, countryZh] pairs the rows carry
Places == {[country |-> "Japan", countryZh |-> "zh-Japan"],
           [country |-> "Nippon", countryZh |-> "zh-Japan"],
           [country |-> "Atlantis", countryZh |-> "zh-Atlantis"]}

LogRows == [userId : RankUsers, place : Places]

\* utils/countryMapping: the ISO code of a known English or Chinese country
\* name, nothing ("") for an unknown one
getCountryISOCode(name) ==
    IF name \in {"Japan", "zh-Japan"} THEN "JP"
    ELSE IF name \in {"Peru", "zh-Peru"} THEN "PE"
    ELSE ""

\* leaderboard.ts 379
countryKey(log) ==
    IF getCountryISOCode(log.place.country) # "" THEN getCountryISOCode(log.place.country)
    ELSE IF getCountryISOCode(log.place.countryZh) # "" THEN getCountryISOCode(log.place.countryZh)
    ELSE log.place.country

\* index of userId among the keys of the Map, 0 when absent
RECURSIVE keyIndex(_, _, _)
keyIndex(stats, userId, i) ==
    IF i > Len(stats) THEN 0
    ELSE IF stats[i].userId = userId THEN i
    ELSE keyIndex(stats, userId, i + 1)

\* leaderboard.ts 374-380: one pass of the loop over the rows
addLog(stats, log) ==
    LET withKey == IF keyIndex(stats, log.userId, 1) = 0
                   THEN Append(stats, [userId |-> log.userId, tripCount |-> 0, countries |-> {}])
                   ELSE stats
        i == keyIndex(withKey, log.userId, 1)
    IN  [withKey EXCEPT ![i] = [@ EXCEPT !.tripCount = @ + 1,
                                         !.countries = @ \cup {countryKey(log)}]]

\* leaderboard.ts 371-381: the Map, in insertion order
RECURSIVE userStats(_, _)
userStats(logs, n) ==
    IF n = 0 THEN << >> ELSE addLog(userStats(logs, n - 1), logs[n])

\* leaderboard.ts 386-394
entryOf(stat) ==
    [userId |-> stat.userId,
     tripCount |-> stat.tripCount,
     countryCount |-> Cardinality(stat.countries),
     score |-> stat.tripCount + Cardinality(stat.countries) * 2]

\* number of leading entries of a sorted list that stay ahead of e
RECURSIVE aheadOf_LaterTieFirst(_, _, _)
aheadOf_LaterTieFirst(sorted, e, i) ==
    IF i > Len(sorted) \/ sorted[i].score - e.score <= 0 THEN i - 1
    ELSE aheadOf_LaterTieFirst(sorted, e, i + 1)

\* leaderboard.ts 398: the comparator b.score - a.score under the stable
\* Array.prototype.sort: an entry stays behind every earlier entry whose score
\* is not smaller
RECURSIVE aheadOf(_, _, _)
aheadOf(sorted, e, i) ==
    IF i > Len(sorted) \/ sorted[i].score - e.score < 0 THEN i - 1
    ELSE aheadOf(sorted, e, i + 1)

\* leaderboard.ts 384-398: entries pushed in Map order, then sorted
RECURSIVE sortedEntries(_, _)
sortedEntries(stats, n) ==
    IF n = 0 THEN << >>
    ELSE LET sorted == sortedEntries(stats, n - 1)
             e == entryOf(stats[n])
             k == aheadOf(sorted, e, 1)
         IN  SubSeq(sorted, 1, k) \o <<e>> \o SubSeq(sorted, k + 1, Len(sorted))

\* leaderboard.ts 401
slice(entries, limit) ==
    SubSeq(entries, 1, IF limit < Len(entries) THEN limit ELSE Len(entries))

\* leaderboard.ts 354-402
getPigLeaderboard(logs, limit) ==
    IF Len(logs) = 0 THEN << >>
    ELSE LET stats == userStats(logs, Len(logs))
         IN  slice(sortedEntries(stats, Len(stats)), limit)

LogLists == UNION {[1..n -> LogRows] : n \in 0..MaxLogs}

InitRank ==
    /\ fnIn \in [logs : LogLists, limit : 0..MaxLimit]
    /\ fnOut = NoResult
    /\ RsvIdle /\ MwIdle /\ CmdIdle /\ RndIdle

PigLeaderboard ==
    /\ ~fnOut.done
    /\ fnOut' = [done |-> TRUE, entries |-> getPigLeaderboard(fnIn.logs, fnIn.limit)]
    /\ UNCHANGED <<fnIn, notFn>>

NextRank == PigLeaderboard

SpecRank == InitRank /\ [][NextRank]_vars

rowsOfUser(u) == {i \in 1..Len(fnIn.logs) : fnIn.logs[i].userId = u}
usersInLogs == {fnIn.logs[i].userId : i \in 1..Len(fnIn.logs)}
firstRow(u) == CHOOSE i \in rowsOfUser(u) : \A j \in rowsOfUser(u) : i <= j
canonical(log) ==
    IF log.place.country = "Atlantis" THEN "Atlantis" ELSE "JP"
tripsOf(u) == Cardinality(rowsOfUser(u))
countriesOf(u) == Cardinality({canonical(fnIn.logs[i]) : i \in rowsOfUser(u)})
scoreOf(u) == tripsOf(u) + 2 * countriesOf(u)
\* u ranks ahead of v: higher score, or the same score and an earlier first row
ranksAhead(u, v) ==
    \/ scoreOf(u) > scoreOf(v)
    \/ scoreOf(u) = scoreOf(v) /\ firstRow(u) < firstRow(v)
rankOf(u) == 1 + Cardinality({v \in usersInLogs : ranksAhead(v, u)})

\* C9: getPigLeaderboard returns one entry per user, with tripCount the number
\* of the user's rows, countryCount the number of distinct canonicalized
\* countries and score = tripCount + 2 * countryCount, in non-increasing score
\* order, equal scores in the order in which the users first appear in the rows,
\* cut to the first `limit` entries.
C9_LeaderboardRanksByScoreStably ==
    fnOut.done =>
        LET out == fnOut.entries
            full == Cardinality(usersInLogs)
        IN  /\ Len(out) = IF fnIn.limit < full THEN fnIn.limit ELSE full
            /\ \A i \in 1..Len(out) :
                  /\ out[i].userId \in usersInLogs
                  /\ rankOf(out[i].userId) = i
                  /\ out[i].tripCount = tripsOf(out[i].userId)
                  /\ out[i].countryCount = countriesOf(out[i].userId)
                  /\ out[i].score = out[i].tripCount + 2 * out[i].countryCount
            /\ \A i, j \in 1..Len(out) :
                  i < j =>
                      /\ out[i].userId # out[j].userId
                      /\ out[i].score >= out[j].score
                      /\ out[i].score = out[j].score =>
                            firstRow(out[i].userId) < firstRow(out[j].userId)

\* C9 witness: two users tie at score 3, the one whose row comes first stays
\* ahead, a later user overtakes both, and the limit cuts the last entry off
C9_Witness ==
    /\ fnOut.done
    /\ fnIn.limit = 2
    /\ Len(fnIn.logs) = 4
    /\ <<fnIn.logs[1].userId, fnIn.logs[2].userId, fnIn.logs[3].userId, fnIn.logs[4].userId>>
          = <<"u2", "u1", "u3", "u3">>
    /\ fnIn.logs[3].place.country = "Nippon" /\ fnIn.logs[4].place.country = "Japan"
    /\ Len(fnOut.entries) = 2
    /\ fnOut.entries[1] = [userId |-> "u3", tripCount |-> 2, countryCount |-> 1, score |-> 4]
    /\ fnOut.entries[2].userId = "u2" /\ fnOut.entries[2].score = 3

(***************************************************************************)
(* processMapSvg (worldmap.ts 232-302). The SVG text is a list of tags;    *)
(* a tag is its id and name attributes ("" when absent), its class         *)
(* attribute as the list of its space-separated tokens, whether it ends    *)
(* with "/>", and whether a class attribute has been written between the   *)
(* slash and the ">".                                                      *)
(***************************************************************************)
NumElems == 1
MaxCount == 5

\* worldmap.ts 255, 262, 271: the case folding the i flag of the regular
\* expressions applies
lower(s) ==
    CASE s = "NO" -> "no"
      [] s = "SE" -> "se"
      [] s = "Norway" -> "norway"
      [] s = "Sweden" -> "sweden"
      [] OTHER -> s

\* worldmap.ts 250: String.prototype.toUpperCase on an ISO code
toUpperCase(s) ==
    CASE s = "no" -> "NO"
      [] s = "se" -> "SE"
      [] OTHER -> s

\* cls.includes('visited') on one token of a class value
tokenIncludesVisited(tok) ==
    tok \in {"visited", "unvisited", "visited-2", "visited-3", "visited-4"}

\* worldmap.ts 292: cls.includes('visited')
includesVisited(cls) == \E i \in 1..Len(cls) : tokenIncludesVisited(cls[i])

ClassValues == {<< >>, <<"land">>, <<"unvisited">>, <<"Norway">>}

Elements ==
    [id : {"", "NO", "no"},
     name : {"", "Norway", "norway", "Sweden"},
     hasClass : BOOLEAN,
     class : ClassValues,
     selfClosing : BOOLEAN,
     classAfterSlash : {FALSE}]

\* a tag without a class attribute has no class tokens
BaseElements == {e \in Elements : ~e.hasClass => e.class = << >>}

Countries == {[isoCode |-> "NO", countryName |-> "Norway"],
              [isoCode |-> "SE", countryName |-> "Sweden"]}

VisitedCountry == [isoCode : {"NO", "SE"}, countryName : {"Norway", "Sweden"}, visitCount : 1..MaxCount]

\* worldmap.ts 75-110: one entry per ISO code, with its canonical name, sorted
\* by descending visitCount
VisitedLists ==
    {v \in UNION {[1..n -> VisitedCountry] : n \in 0..2} :
        /\ \A i \in 1..Len(v) : [isoCode |-> v[i].isoCode, countryName |-> v[i].countryName] \in Countries
        /\ \A i, j \in 1..Len(v) : i # j => v[i].isoCode # v[j].isoCode
        /\ \A i, j \in 1..Len(v) : i < j => v[i].visitCount >= v[j].visitCount}

\* worldmap.ts 232-237
getVisitClass(count) ==
    IF count >= 5 THEN "visited-4"
    ELSE IF count >= 3 THEN "visited-3"
    ELSE IF count >= 1 THEN "visited-2"
    ELSE ""

\* worldmap.ts 252: `visited ${getVisitClass(country.visitCount)}`, as tokens
visitClass(country) ==
    IF getVisitClass(country.visitCount) = "" THEN <<"visited">>
    ELSE <<"visited", getVisitClass(country.visitCount)>>

\* worldmap.ts 287-298 without the test of line 292
addClassToElement_NoDuplicateTest(e, className) ==
    IF e.hasClass
    THEN [e EXCEPT !.class = e.class \o className]
    ELSE [e EXCEPT !.hasClass = TRUE, !.class = className,
                   !.classAfterSlash = e.selfClosing]

\* worldmap.ts 287-298
addClassToElement(e, className) ==
    IF e.hasClass
    THEN IF includesVisited(e.class) THEN e
         ELSE [e EXCEPT !.class = e.class \o className]
    ELSE [e EXCEPT !.hasClass = TRUE, !.class = className,
                   !.classAfterSlash = e.selfClosing]

\* worldmap.ts 254-258: tags whose id is the ISO code, ignoring case
replaceById(e, country) ==
    IF e.id # "" /\ lower(e.id) = lower(toUpperCase(country.isoCode))
    THEN addClassToElement(e, visitClass(country))
    ELSE e

\* worldmap.ts 260-266: tags whose name is the English name, ignoring case
replaceByName(e, country) ==
    IF country.countryName # "" /\ e.name # "" /\ lower(e.name) = lower(country.countryName)
    THEN addClassToElement(e, visitClass(country))
    ELSE e

\* worldmap.ts 268-281: tags whose class value is the English name, ignoring case
replaceByClass(e, country) ==
    IF /\ country.countryName # ""
       /\ e.hasClass /\ Len(e.class) = 1
       /\ lower(e.class[1]) = lower(country.countryName)
    THEN [e EXCEPT !.class = e.class \o visitClass(country)]
    ELSE e

\* worldmap.ts 249-282: one pass of the loop over the visited countries
patchCountry(svg, country) ==
    [i \in 1..Len(svg) |->
        replaceByClass(replaceByName(replaceById(svg[i], country), country), country)]

\* worldmap.ts 247-284: the loop over the visited countries
RECURSIVE patchCountries(_, _, _)
patchCountries(svg, visited, n) ==
    IF n = 0 THEN svg
    ELSE patchCountry(patchCountries(svg, visited, n - 1), visited[n])

\* worldmap.ts 246-285
processMapSvg(svgContent, visitedCountries) ==
    patchCountries(svgContent, visitedCountries, Len(visitedCountries))

InitSvg ==
    /\ fnIn \in [svg : [1..NumElems -> BaseElements], visited : VisitedLists]
    /\ fnOut = NoResult
    /\ RsvIdle /\ MwIdle /\ CmdIdle /\ RndIdle

\* processMapSvg applied to the base SVG
ProcessMapSvg ==
    /\ ~fnOut.done
    /\ fnOut' = [done |-> TRUE, passes |-> 1, input |-> fnIn.svg,
                 svg |-> processMapSvg(fnIn.svg, fnIn.visited)]
    /\ UNCHANGED <<fnIn, notFn>>

\* processMapSvg applied to its own output, with the same visited countries
ReprocessMapSvg ==
    /\ fnOut.done /\ fnOut.passes = 1
    /\ fnOut' = [done |-> TRUE, passes |-> 2, input |-> fnOut.svg,
                 svg |-> processMapSvg(fnOut.svg, fnIn.visited)]
    /\ UNCHANGED <<fnIn, notFn>>

NextSvg == ProcessMapSvg \/ ReprocessMapSvg

SpecSvg == InitSvg /\ [][NextSvg]_vars

\* the element matches the country: id equal to the ISO code ignoring case, or
\* name equal to the English name, or class equal to the English name
claimMatch(e, c) ==
    \/ e.id # "" /\ lower(e.id) = lower(c.isoCode)
    \/ e.name = c.countryName
    \/ e.hasClass /\ e.class = <<c.countryName>>

matchesOf(e) == {k \in 1..Len(fnIn.visited) : claimMatch(e, fnIn.visited[k])}

tierOf(count) ==
    IF count >= 5 THEN "visited-4" ELSE IF count >= 3 THEN "visited-3" ELSE "visited-2"

visitedCount(e) == Cardinality({k \in 1..Len(e.class) : e.class[k] = "visited"})

\* C11: for a fixed list of visited countries processMapSvg is idempotent:
\* applied to its own output it returns that output unchanged, and no element's
\* class value holds the class 'visited' more than once, after the first
\* application and after the second.
C11_ProcessMapSvgIdempotent ==
    fnOut.done =>
        /\ fnOut.passes = 2 => fnOut.svg = fnOut.input
        /\ \A i \in 1..Len(fnOut.svg) : visitedCount(fnOut.svg[i]) <= 1

\* C11 witness: the second application ran on an SVG in which the first one had
\* given an element with a class attribute the class 'visited'
C11_Witness ==
    /\ fnOut.done /\ fnOut.passes = 2
    /\ \E i \in 1..Len(fnOut.svg) :
          /\ fnIn.svg[i].hasClass /\ visitedCount(fnIn.svg[i]) = 0
          /\ visitedCount(fnOut.input[i]) = 1
          /\ fnOut.svg[i] = fnOut.input[i]

\* ---------------------------------------------------------------------------
\* Monthly window query: getMonthlyLogs (summary.ts, stored as
\* src/unnamed/part_002, 1255-1280)
\* ---------------------------------------------------------------------------

MaxMonthRows == 2

\* An instant of the local calendar.  Instants are numbered so that their
\* order is the order of time: 31 slots per month, the day of the month inside.
instantOf(y, monthIndex, d) == ((y * 12 + monthIndex) * 31) + (d - 1)

\* the same constructor if the month index were clamped to December
newDate_NoRollover(year, monthIndex, day) ==
    instantOf(year, IF monthIndex > 11 THEN 11 ELSE monthIndex, day)

\* new Date(year, monthIndex, 1) of part_002 1263-1264: a month index of 12
\* rolls over to January of the following year
newDate(year, monthIndex, day) ==
    instantOf(year + (monthIndex \div 12), monthIndex % 12, day)

\* calendar dates of stored rows: year, month 1..12, day
LogDates == {<<2023, 12, 20>>, <<2024, 1, 1>>, <<2024, 1, 20>>,
             <<2024, 2, 1>>, <<2024, 12, 31>>, <<2025, 1, 1>>}

\* pig_travel_log rows (part_001 79-92); timestamp is the Date written by
\* triggerTravelSequence
MonthRows == [userId : {"u1", "u2"}, platform : {"p1"}, guildId : {"g1", "g2"},
              date : LogDates]

timestampOf(row) == instantOf(row.date[1], row.date[2] - 1, row.date[3])

MonthTables == UNION {[1..n -> MonthRows] : n \in 0..MaxMonthRows}

\* part_002 1266-1274: the query of ctx.database.get
monthQuery(table, userId, platform, year, month, guildId) ==
    LET startDate == newDate(year, month - 1, 1)
        endDate == newDate(year, month, 1)
    IN  SelectSeq(table, LAMBDA r :
            /\ r.userId = userId
            /\ r.platform = platform
            /\ (guildId # "" => r.guildId = guildId)
            /\ timestampOf(r) >= startDate
            /\ timestampOf(r) < endDate)

\* part_002 1277: logs.sort((a, b) => b.timestamp - a.timestamp), a stable sort
RECURSIVE insertNewestFirst(_, _)
insertNewestFirst(sorted, row) ==
    IF sorted = << >> THEN <<row>>
    ELSE IF timestampOf(row) > timestampOf(Head(sorted))
         THEN <<row>> \o sorted
         ELSE <<Head(sorted)>> \o insertNewestFirst(Tail(sorted), row)

RECURSIVE sortNewestFirst(_)
sortNewestFirst(logs) ==
    IF logs = << >> THEN << >>
    ELSE insertNewestFirst(sortNewestFirst(SubSeq(logs, 1, Len(logs) - 1)),
                           logs[Len(logs)])

\* part_002 1255-1280
getMonthlyLogs(table, userId, platform, year, month, guildId) ==
    sortNewestFirst(monthQuery(table, userId, platform, year, month, guildId))

InitMonthly ==
    /\ fnIn \in [table : MonthTables, userId : {"u1"}, platform : {"p1"},
                 year : {2023, 2024}, month : 1..12, guildId : {"", "g1"}]
    /\ fnOut = NoResult
    /\ RsvIdle /\ MwIdle /\ CmdIdle /\ RndIdle

GetMonthlyLogs ==
    /\ ~fnOut.done
    /\ fnOut' = [done |-> TRUE,
                 logs |-> getMonthlyLogs(fnIn.table, fnIn.userId, fnIn.platform,
                                         fnIn.year, fnIn.month, fnIn.guildId)]
    /\ UNCHANGED <<fnIn, notFn>>

NextMonthly == GetMonthlyLogs

SpecMonthly == InitMonthly /\ [][NextMonthly]_vars

\* the rows of the table that belong to the asked user (and guild, when one is
\* given) and whose calendar month is the asked month of the asked year
inAskedMonth(r) ==
    /\ r.userId = fnIn.userId /\ r.platform = fnIn.platform
    /\ (fnIn.guildId # "" => r.guildId = fnIn.guildId)
    /\ r.date[1] = fnIn.year /\ r.date[2] = fnIn.month

timesIn(seq, r) == Cardinality({k \in 1..Len(seq) : seq[k] = r})

\* C12: for every year and month 1..12, getMonthlyLogs returns exactly the
\* asked user's rows whose timestamp lies in the calendar month: every such row
\* as often as the table holds it, no other row; December ends at January 1 of
\* the following year, and a row of the first day of the following month is not
\* returned.
C12_MonthlyWindowIsHalfOpen ==
    fnOut.done =>
        \A r \in MonthRows :
            timesIn(fnOut.logs, r) = IF inAskedMonth(r) THEN timesIn(fnIn.table, r) ELSE 0

\* a December query over a table holding a row of December 31 and a row of
\* January 1 of the following year: the first is returned, the second is not
C12_Witness ==
    /\ fnOut.done /\ fnIn.month = 12 /\ fnIn.year = 2024
    /\ \E i, j \in 1..Len(fnIn.table) :
          /\ fnIn.table[i].date = <<2024, 12, 31>> /\ inAskedMonth(fnIn.table[i])
          /\ fnIn.table[j].date = <<2025, 1, 1>> /\ fnIn.table[j].userId = fnIn.userId
          /\ fnOut.logs = <<fnIn.table[i]>>

\* ---------------------------------------------------------------------------
\* The resolver and the travel orchestrator under every availability of the
\* LLM: enabled or not, model identifier set or not, chatluna present or not
\* ---------------------------------------------------------------------------

\* one caller suffices where the LLM is available: that configuration is only
\* the contrast
LocationConfigs ==
    { c \in [llmLocationEnabled : BOOLEAN, llmLocationModel : BOOLEAN, chatluna : BOOLEAN,
             llmFailureCooldownMs : {CooldownMs},
             pexelsApiKey : {FALSE}, unsplashAccessKey : {FALSE},
             outputMode : {"text"}, aigc : {FALSE}, storage : {FALSE},
             tasks : {1, NumTasks}] :
        c.tasks = 1 <=> (c.llmLocationEnabled /\ c.llmLocationModel /\ c.chatluna) }

InitLocation == RsvInit(LocationConfigs)

NextLocation ==
    \/ \E t \in Tasks : CallResolver(t)
    \/ \E t \in Tasks : TriggerTravel(t)
    \/ \E t \in Tasks : CreateChatModel(t)
    \/ \E t \in Tasks : Invoke(t)
    \/ \E t \in Tasks : CreateLog(t)

SpecLocation == InitLocation /\ [][NextLocation]_vars

generationOff ==
    ~config.llmLocationEnabled \/ ~config.llmLocationModel \/ ~config.chatluna

\* C13: when llmLocationEnabled is false, or no model identifier is configured,
\* or the LLM service is absent, every call of generateLocationWithLLM and of
\* triggerTravelSequence gets an entry of the static catalog, no call ever
\* waits for createChatModel or invoke, and no step changes llmCooldownUntil.
C13_NoGenerationWhenUnavailable ==
    /\ [](generationOff =>
            \A t \in Tasks :
                /\ task[t].pc \notin {"createChatModel", "invoke"}
                /\ task[t].path \in {"none", "disabled"}
                /\ task[t].entry # "none" => task[t].location \in LOCATIONS)
    /\ [][generationOff => llmCooldownUntil' = llmCooldownUntil]_vars

\* the LLM is enabled and chatluna is present but no model identifier is set: a
\* direct call and a travel sequence have both been answered from the catalog
C13_Witness ==
    /\ config.llmLocationEnabled /\ config.chatluna /\ ~config.llmLocationModel
    /\ \E t, u \in Tasks :
          /\ task[t].entry = "resolver" /\ task[t].pc = "done"
          /\ task[t].path = "disabled" /\ task[t].location \in LOCATIONS
          /\ task[u].entry = "travel" /\ task[u].pc = "done"
          /\ task[u].path = "disabled" /\ task[u].location \in LOCATIONS
          /\ Len(travelLog) = 1

\* ---------------------------------------------------------------------------
\* What generateLocationWithLLM returns for one response of the model, without
\* photo API keys (location.ts 186-251 and parseLocationResponse, 262-308)
\* ---------------------------------------------------------------------------

InitParse ==
    /\ fnIn \in Contents
    /\ fnOut = NoResult
    /\ RsvIdle /\ MwIdle /\ CmdIdle /\ RndIdle

\* location.ts 191-193, 247-251: the parsed location, or a catalog entry
LocationOfResponse ==
    /\ ~fnOut.done
    /\ LET r == parseLocationResponse(fnIn) IN
       IF r.res = "ok"
       THEN fnOut' = [done |-> TRUE, location |-> r.loc, attempts |-> r.attempts,
                      exhausted |-> r.exhausted]
       ELSE \E s \in getRandomStaticLocation :
               fnOut' = [done |-> TRUE, location |-> s, attempts |-> r.attempts,
                         exhausted |-> r.exhausted]
    /\ UNCHANGED <<fnIn, notFn>>

NextParse == LocationOfResponse

SpecParse == InitParse /\ [][NextParse]_vars

\* JSON.parse returns an object for the response (at once, or for the text the
\* lenient pattern extracts) and the object carries country, landmark and a
\* landscapeUrl value
parsesWithRequiredFields ==
    /\ fnIn.kind = "object"
    /\ fnIn.shape \in {"bare", "fenced"} \/ (fnIn.shape = "embedded" /\ fnIn.order = "cl")
    /\ ~falsy(fnIn.country) /\ ~falsy(fnIn.landmark) /\ ~falsy(fnIn.url)

\* C14: when the response of the LLM is a JSON object that carries country,
\* landmark and a landscapeUrl value, and that value is not an absolute HTTP(S)
\* URL, the call returns the location of the response (not a catalog entry)
\* with the synthesized URL built from landmark and country, which begins with
\* "http".
C14_NonHttpUrlIsSynthesized ==
    (fnOut.done /\ parsesWithRequiredFields /\ fnIn.url # LlmHttpUrl)
    => /\ fnOut.location.origin = "llm"
       /\ fnOut.location.country = fnIn.country
       /\ fnOut.location.landmark = fnIn.landmark
       /\ fnOut.location.landscapeUrl = SynthUrl
       /\ startsWithHttp(fnOut.location.landscapeUrl)

\* ---------------------------------------------------------------------------
\* The card renderers: generateFootprintCard (card.ts, stored as
\* src/unnamed/part_002, 1153-1192), generateMonthlySummaryCard (2005-2042),
\* generateMonthlySummaryGroupCard (2373-2408), renderLeaderboardCard
\* (location.ts 980-1015) and generateWorldMapCard (worldmap.ts 1002-1043).
\* One task is one render call; it stops at every await on the page.  The
\* calls of one behaviour are calls of the same renderer (config.renderer).
\* ---------------------------------------------------------------------------

NumRenders == 2     \* concurrent render calls
MaxPages == 2       \* pages handed out by ctx.puppeteer.page()

Renderers == {"footprint", "summary", "summaryGroup", "leaderboard", "worldMap"}

\* the awaits between page() and the return; the world map evaluates twice
\* (worldmap.ts 1014-1020)
renderSteps(kind) ==
    IF kind = "worldMap"
    THEN <<"setViewport", "setContent", "evaluate", "evaluate", "screenshot">>
    ELSE <<"setViewport", "setContent", "evaluate", "screenshot">>

IdleRender == [pc |-> "idle", step |-> 0, page |-> 0, failedStep |-> "none"]

RndInit ==
    /\ config \in [tasks : {NumRenders}, renderer : Renderers]
    /\ now = 0
    /\ llmCooldownUntil = 0
    /\ task = [t \in 1..NumRenders |-> IdleRender]
    /\ travelLog = << >>
    /\ lastFail = -1
    /\ lastFailLive = -1
    /\ pages = << >>
    /\ MwIdle /\ CmdIdle /\ FnIdle

notRnd == <<config, now, llmCooldownUntil, travelLog, lastFail, lastFailLive,
            mwVars, cmdVars, fnVars>>

pagesAskedFor == Len(pages) + Cardinality({t \in Tasks : task[t].pc = "page"})

\* a renderer is called and waits for ctx.puppeteer.page(); the callers are
\* numbered in the order of their first call
CallRender(t) ==
    /\ task[t].pc \in {"idle", "done", "threw"}
    /\ \A u \in Tasks : u < t => task[u].pc # "idle"
    /\ pagesAskedFor < MaxPages
    /\ task' = [task EXCEPT ![t] = [IdleRender EXCEPT !.pc = "page"]]
    /\ UNCHANGED <<pages, notRnd>>

\* page = await ctx.puppeteer.page() resumes; when it rejects, the catch rethrows
\* and the finally finds page null
PageOpened(t) ==
    /\ task[t].pc = "page"
    /\ \/ /\ pages' = Append(pages, [by |-> t, closeCalls |-> 0, closeFailed |-> FALSE])
          /\ task' = [task EXCEPT ![t].pc = "step", ![t].step = 1,
                                  ![t].page = Len(pages) + 1]
       \/ /\ task' = [task EXCEPT ![t].pc = "threw", ![t].failedStep = "page"]
          /\ UNCHANGED pages
    /\ UNCHANGED notRnd

\* one await on the page resumes: the next one follows, the screenshot ends the
\* try block with the return value pending, a rejection goes through the catch
\* (log, throw e); either way the finally block is next
RenderStep(t) ==
    /\ task[t].pc = "step"
    /\ LET steps == renderSteps(config.renderer) IN
       \/ task' = [task EXCEPT ![t] =
                     IF task[t].step < Len(steps)
                     THEN [task[t] EXCEPT !.step = task[t].step + 1]
                     ELSE [task[t] EXCEPT !.pc = "close"]]
       \/ task' = [task EXCEPT ![t].pc = "close",
                               ![t].failedStep = steps[task[t].step]]
    /\ UNCHANGED <<pages, notRnd>>

\* the finally block if a rejection of page.close() were not caught
ClosePage_Unguarded(t) ==
    /\ task[t].pc = "close"
    /\ \E closed \in BOOLEAN :
          /\ pages' = [pages EXCEPT ![task[t].page].closeCalls = @ + 1,
                                    ![task[t].page].closeFailed = ~closed]
          /\ task' = [task EXCEPT ![t].pc =
                        IF closed /\ task[t].failedStep = "none" THEN "done" ELSE "threw"]
    /\ UNCHANGED notRnd

\* the finally block: await page.close() resumes; its rejection is caught and
\* at most logged, then the pending return or throw takes place
ClosePage(t) ==
    /\ task[t].pc = "close"
    /\ \E closed \in BOOLEAN :
          /\ pages' = [pages EXCEPT ![task[t].page].closeCalls = @ + 1,
                                    ![task[t].page].closeFailed = ~closed]
          /\ task' = [task EXCEPT ![t].pc =
                        IF task[t].failedStep = "none" THEN "done" ELSE "threw"]
    /\ UNCHANGED notRnd

NextRender ==
    \/ \E t \in Tasks : CallRender(t)
    \/ \E t \in Tasks : PageOpened(t)
    \/ \E t \in Tasks : RenderStep(t)
    \/ \E t \in Tasks : ClosePage(t)

SpecRender == RndInit /\ [][NextRender]_vars

\* the page a render call in progress still works on
inUse(i) ==
    \E t \in Tasks : task[t].page = i /\ task[t].pc \in {"step", "close"}

\* C15: in every card renderer, page.close() is called exactly once on each
\* page obtained from ctx.puppeteer.page(), before the render call returns or
\* throws: no page is closed twice, and a page that no call in progress works on
\* has been closed.  The call returns the screenshot when no step failed and
\* throws the step's error otherwise, whatever page.close() did.
C15_PageClosedExactlyOnce ==
    /\ \A i \in 1..Len(pages) :
          /\ pages[i].closeCalls <= 1
          /\ ~inUse(i) => pages[i].closeCalls = 1
          /\ inUse(i) => pages[i].closeCalls = 0
    /\ \A t \in Tasks :
          /\ task[t].pc = "done" => task[t].failedStep = "none" /\ task[t].page # 0
          /\ task[t].pc = "threw" => task[t].failedStep # "none"
          /\ task[t].failedStep = "page" => task[t].page = 0

\* a world map render whose second evaluate was rejected has thrown, another
\* has returned although its page.close() was rejected, and both pages have
\* been closed once
C15_Witness ==
    \E t, u \in Tasks :
        /\ config.renderer = "worldMap" /\ task[t].pc = "threw"
        /\ task[t].failedStep = "evaluate" /\ task[t].step = 4
        /\ pages[task[t].page].closeCalls = 1
        /\ task[u].pc = "done"
        /\ pages[task[u].page].closeFailed /\ pages[task[u].page].closeCalls = 1

\* ---------------------------------------------------------------------------
\* The writes to pig_user_state and pig_guild_config: the four upserts of the
\* middlewares (index.ts, stored as src/src/types.ts, 830, 903, 921, 1020) and
\* the upsert and the remove of setGuildBackgroundImage (background.ts 22-41).
\* Every write can happen for every session, in any order and any number of
\* times; the tables have the auto-increment primary key id (database.ts,
\* stored as src/unnamed/part_001, 61-102) and no other unique column.
\* ---------------------------------------------------------------------------

Platforms == {"onebot"}
UserIds == {"u1", "u2"}
GuildIds == {"", "g1"}          \* session.guildId || ''
Images == {"a.png", "b.png"}

\* the next value of the auto-increment primary key
nextId(table) ==
    IF table = {} THEN 1
    ELSE (CHOOSE i \in {r.id : r \in table} : \A r \in table : r.id <= i) + 1

sameKeys(r, row, keys) == \A k \in keys : r[k] = row[k]

\* ctx.database.upsert(table, [row], keys) if it inserted without looking for
\* the row of the keys
upsertRow_AlwaysInsert(table, row, keys) ==
    table \cup { [f \in DOMAIN row \cup {"id"} |->
                    IF f = "id" THEN nextId(table) ELSE row[f]] }

\* ctx.database.upsert(table, [row], keys): the rows that agree with row on
\* keys take its fields; without such a row, row is inserted with a fresh id
upsertRow(table, row, keys) ==
    IF \E r \in table : sameKeys(r, row, keys)
    THEN { IF sameKeys(r, row, keys)
           THEN [f \in DOMAIN r |-> IF f \in DOMAIN row THEN row[f] ELSE r[f]]
           ELSE r : r \in table }
    ELSE table \cup { [f \in DOMAIN row \cup {"id"} |->
                         IF f = "id" THEN nextId(table) ELSE row[f]] }

\* ctx.database.remove(table, query)
removeRows(table, query) ==
    { r \in table : ~sameKeys(r, query, DOMAIN query) }

TblInit ==
    /\ pigUserState = {}
    /\ pigGuildConfig = {}
    /\ travelLocks = << >>
    /\ dailyUserState = << >>
    /\ cachedSunriseDate = -1
    /\ started = << >>
    /\ detached = 0
    /\ files = {}
    /\ RsvIdle /\ FnIdle /\ RndIdle

notTbl == <<rsvVars, travelLocks, dailyUserState, cachedSunriseDate, started, detached,
            files, fnVars, rndVars>>

\* one of the upserts of pig_user_state: the silent record (830), the first
\* message of the day (903), the abnormal count (921), the statistics (1020)
UserStateUpsert ==
    /\ \E p \in Platforms, u \in UserIds, g \in GuildIds,
          w \in {"silent", "firstOfDay", "abnormal", "stats"} :
          pigUserState' =
              upsertRow(pigUserState,
                        [platform |-> p, userId |-> u, guildId |-> g, writer |-> w],
                        {"platform", "userId", "guildId"})
    /\ UNCHANGED <<pigGuildConfig, notTbl>>

\* pig.bg set: setGuildBackgroundImage(ctx, platform, guildId, image, userId)
GuildBackgroundSet ==
    /\ \E p \in Platforms, u \in UserIds, g \in GuildIds \ {""}, img \in Images :
          pigGuildConfig' =
              upsertRow(pigGuildConfig,
                        [platform |-> p, guildId |-> g, backgroundImage |-> img,
                         backgroundSetBy |-> u],
                        {"platform", "guildId"})
    /\ UNCHANGED <<pigUserState, notTbl>>

\* pig.bg reset: setGuildBackgroundImage(ctx, platform, guildId, null, userId)
GuildBackgroundReset ==
    /\ \E p \in Platforms, g \in GuildIds \ {""} :
          pigGuildConfig' = removeRows(pigGuildConfig, [platform |-> p, guildId |-> g])
    /\ UNCHANGED <<pigUserState, notTbl>>

NextTables == UserStateUpsert \/ GuildBackgroundSet \/ GuildBackgroundReset

SpecTables == TblInit /\ [][NextTables]_vars

Undefined == "<undefined>"

SunriseApis == {Undefined, "https://api.sunrise-sunset.org/json", "https://sun.example/json"}
LogPaths == {Undefined, "./data/pig/logs", "/var/log/pig"}

\* the answers of the environment: the user's stored latitude (index.ts 894),
\* whether chatluna_storage is present and whether its upload succeeds
CompatEnvs ==
    [latitude : {Undefined, "48"}, storage : BOOLEAN, uploadOk : BOOLEAN]

CompatConfigs ==
    [sunriseApi : SunriseApis, logPath : LogPaths, defaultLat : {"30"},
     defaultLng : {"120"}, useStorageService : BOOLEAN]

\* getSunriseInfo if it asked the configured sunriseApi, as older versions did
getSunriseInfo_ConfiguredApi(cfg, lat, lng) ==
    [api |-> IF cfg.sunriseApi = Undefined
             THEN "https://api.sunrise-sunset.org/json" ELSE cfg.sunriseApi,
     lat |-> lat, lng |-> lng, formatted |-> "0", date |-> "today"]

\* sunrise.ts (stored in src/unnamed/part_004) 144-146: the request of
\* getSunriseInfo
getSunriseInfo(cfg, lat, lng) ==
    [api |-> "https://api.sunrise-sunset.org/json",
     lat |-> lat, lng |-> lng, formatted |-> "0", date |-> "today"]

\* travel.ts 92-105: the card is uploaded when useStorageService is on and
\* chatluna_storage is present; nothing is written below logPath
uploadedUrl(cfg, env) ==
    IF cfg.useStorageService /\ env.storage /\ env.uploadOk THEN StorageUrl ELSE NoUrl

\* the outbound requests, the row written to pig_travel_log, the files written
\* and the reply of one handled message
effectsOf(cfg, env) ==
    [requests |-> <<getSunriseInfo(cfg,
                        IF env.latitude = Undefined THEN cfg.defaultLat ELSE env.latitude,
                        cfg.defaultLng)>>
                  \o (IF cfg.useStorageService /\ env.storage
                      THEN <<"createTempFile">> ELSE << >>),
     imagePath |-> imagePathOf(uploadedUrl(cfg, env)),
     filesWritten |-> {},
     reply |-> IF uploadedUrl(cfg, env) = NoUrl THEN "image:base64" ELSE "image:url"]

InitCompat ==
    /\ fnIn \in [config : CompatConfigs, sunriseApi : SunriseApis, logPath : LogPaths,
                 env : CompatEnvs]
    /\ fnOut = NoResult
    /\ RsvIdle /\ MwIdle /\ CmdIdle /\ RndIdle

\* the same message handled under fnIn.config and under the configuration that
\* differs from it in sunriseApi and logPath
HandleUnderBoth ==
    /\ ~fnOut.done
    /\ fnOut' = [done |-> TRUE,
                 first |-> effectsOf(fnIn.config, fnIn.env),
                 second |-> effectsOf([fnIn.config EXCEPT !.sunriseApi = fnIn.sunriseApi,
                                                          !.logPath = fnIn.logPath],
                                      fnIn.env)]
    /\ UNCHANGED <<fnIn, notFn>>

NextCompat == HandleUnderBoth

SpecCompat == InitCompat /\ [][NextCompat]_vars

C18_ParseFailureStartsCooldown ==
    [][\A t \in Tasks :
          ( /\ cooldownConfigured
            /\ task[t].pc = "invoke" /\ task'[t].pc = "done"
            /\ task'[t].event \in {"malformed", "missing"} )
          => now' < llmCooldownUntil']_vars

\* the row of the guild the message was not sent in: it still is as the rows of
\* both guilds were before the message
rowBefore(tk) ==
    IF \E r \in pigUserState : r.guildId # tk.guildId
    THEN CHOOSE r \in pigUserState : r.guildId # tk.guildId
    ELSE NoRow

\* task t has handled the only message so far, without a failure, in the scope
\* of the automatic detection, and the message arrived after the day start
handledAlone(t) ==
    /\ config.experimentalAutoDetect
    /\ config.experimentalAutoDetectScope = "all" \/ task[t].guildId # ""
    /\ config.startTime = SunriseToday - TickMs
    /\ task[t].pc = "passed" /\ task[t].failures = 0
    /\ \A u \in Tasks \ {t} : task[u].pc = "new"

\* C19: with experimentalAutoDetect enabled and whatever silentRecordEnabled
\* is, the first message of the day of a user with a previous wake time, sent at
\* or after the day start (two hours before sunrise), starts a travel sequence
\* and raises abnormalCount by exactly 1 when |now - lastWakeUp - 24 h| exceeds
\* abnormalThreshold hours; otherwise no travel sequence is started by the
\* detection and abnormalCount is unchanged.  (The previous wake time is
\* yesterday 12:00, six hours off, or yesterday 05:00, at most one hour off;
\* the threshold is 3 hours.)
C19_AbnormalWakeTriggersTravel ==
    \A t \in Tasks :
        handledAlone(t) =>
            LET before == rowBefore(task[t])
                row == getFirst(pigUserState, task[t].guildId)
                odd == before.lastWakeUp = OddWake
            IN  /\ autoStarts # {} <=> odd
                /\ row.abnormalCount = before.abnormalCount + (IF odd THEN 1 ELSE 0)

(***************************************************************************)
(* The photo search of generateLocationWithLLM (location.ts 197-247): one  *)
(* caller, the LLM available, every combination of the two API keys.       *)
(***************************************************************************)
SearchConfigs ==
    [llmLocationEnabled : {TRUE}, llmLocationModel : {TRUE}, chatluna : {TRUE},
     llmFailureCooldownMs : {CooldownMs},
     pexelsApiKey : BOOLEAN, unsplashAccessKey : BOOLEAN,
     outputMode : {"text"}, aigc : {FALSE}, storage : {FALSE},
     tasks : {1}]

InitSearch == RsvInit(SearchConfigs)

NextSearch ==
    \/ \E t \in Tasks : CallResolver(t)
    \/ \E t \in Tasks : CreateChatModel(t)
    \/ \E t \in Tasks : Invoke(t)
    \/ \E t \in Tasks : SearchPexels(t)
    \/ \E t \in Tasks : SearchUnsplash(t)

SpecSearch == InitSearch /\ [][NextSearch]_vars

\* the providers whose key is set, Pexels before Unsplash
providersInOrder ==
    (IF config.pexelsApiKey THEN <<"pexels">> ELSE << >>)
    \o (IF config.unsplashAccessKey THEN <<"unsplash">> ELSE << >>)

\* the candidate queries in the order the claim gives them
queriesInOrder(loc) ==
    IF loc.city # ""
    THEN <<"template", "landmark country", "city country", "country">>
    ELSE <<"template", "landmark country", "country">>

\* every request that can be made for loc, query by query and provider by
\* provider
requestsInOrder(loc) ==
    LET q == queriesInOrder(loc)
        a == providersInOrder
    IN  [i \in 1..(Len(q) * Len(a)) |->
            [query |-> q[((i - 1) \div Len(a)) + 1], api |-> a[((i - 1) % Len(a)) + 1]]]

\* the requests made so far are the first ones of the order, and none follows
\* a request that was answered with a photo
searchedInOrder(tk) ==
    LET s == tk.searches
        e == requestsInOrder(tk.location)
    IN  /\ Len(s) <= Len(e)
        /\ \A i \in 1..Len(s) : s[i].api = e[i].api /\ s[i].query = e[i].query
        /\ \A i \in 1..(Len(s) - 1) : s[i].url = NoUrl

BgConfigs ==
    [monthlySummaryScope : {"guild"}, tasks : {NumCmds},
     commands : {{"pig.bg"}}, senders : {Senders}]

InitBg == CmdInit(BgConfigs)

NextBg ==
    \/ \E t \in Tasks : CmdReceive(t)
    \/ \E t \in Tasks : BgGetUser(t)
    \/ \E t \in Tasks : BgView(t)
    \/ \E t \in Tasks : BgReset(t)
    \/ \E t \in Tasks : BgSet(t)

SpecBg == InitBg /\ [][NextBg]_vars

\* tk handles a pig.bg sent in a guild by a user whose authority is below 3 and
\* whose member role is neither owner nor admin
bgOfOrdinaryMember(tk) ==
    /\ tk.cmd = "pig.bg" /\ tk.inGuild
    /\ tk.authority < 3
    /\ tk.memberRole \notin {"owner", "admin"}

\* C21: no step of a pig.bg handler invoked by a user with authority below 3
\* and a member role that is neither owner nor admin creates, replaces or
\* removes a pig_guild_config row or deletes or writes a background file,
\* whatever the reset option and the attached image or URL are; what such a
\* handler returns is the view text.
C21_OrdinaryMemberOnlyViews ==
    [][\A t \in Tasks :
          (bgOfOrdinaryMember(task'[t]) /\ task'[t] # task[t])
          => /\ pigGuildConfig' = pigGuildConfig
             /\ files' = files
             /\ task'[t].pc = "returned" => task'[t].reply = "view"]_vars

\* an ordinary member sent pig.bg -r with an image where a background file is
\* configured, and got the view text
C21_Witness ==
    \E t \in Tasks :
        /\ bgOfOrdinaryMember(task[t])
        /\ task[t].authority = 2
        /\ task[t].reset /\ task[t].hasImage
        /\ task[t].pc = "returned" /\ task[t].reply = "view"
        /\ \E r \in pigGuildConfig : r.backgroundImage = OldFile
        /\ OldFile \in files

(***************************************************************************)
(* The daily retention job (index.ts 1093-1108) next to the creation of    *)
(* travel-log rows (travel.ts 112-126). Time advances in half days; the    *)
(* job's task holds its program counter, the cutoff it computed and, as    *)
(* history, the time it ran at and the outcome of its last removal.        *)
(***************************************************************************)
MaxOldRows == 2      \* rows in pig_travel_log when the job is registered
MaxNewRows == 1      \* rows created afterwards
MaxCleanups == 2     \* runs of the job
MaxHalfDays == 2     \* half days the clock advances

HalfDayMs == DayMs \div 2

RetentionDays == {0, 1, 2}

\* the tables a travel-log row sequence can be at start: created in time order
OldLogs ==
    UNION { { s \in [1..n -> [id : 1..n, timestamp : { k * HalfDayMs : k \in 0..4 }]] :
                /\ \A i \in 1..n : s[i].id = i
                /\ \A i \in 1..(n - 1) : s[i].timestamp <= s[i + 1].timestamp } :
            n \in 0..MaxOldRows }

IdleCleanup ==
    [pc |-> "idle", cutoffDate |-> 0, ranAt |-> 0, outcome |-> "none", runs |-> 0,
     nextId |-> 0]

\* mutant of removeOlderThan: the row at the cutoff goes as well
removeOlderThan_Inclusive(log, cutoffDate) ==
    SelectSeq(log, LAMBDA r : ~(r.timestamp <= cutoffDate))

\* index.ts 1101-1103: remove('pig_travel_log', { timestamp: { $lt: cutoffDate } })
removeOlderThan(log, cutoffDate) ==
    SelectSeq(log, LAMBDA r : ~(r.timestamp < cutoffDate))

InitRetention ==
    /\ config \in [logRetentionDays : RetentionDays, tasks : {1}]
    /\ now = 2 * DayMs
    /\ travelLog \in OldLogs
    /\ task = [t \in 1..config.tasks |-> [IdleCleanup EXCEPT !.nextId = Len(travelLog) + 1]]
    /\ pigUserState \in { {}, {NewRow("g1")} }
    /\ pigGuildConfig \in { {}, {[guildId |-> "g1", backgroundImage |-> RemoteImage]} }
    /\ files = {}
    /\ travelLocks = << >> /\ dailyUserState = << >> /\ cachedSunriseDate = -1
    /\ started = << >> /\ detached = 0
    /\ llmCooldownUntil = 0 /\ lastFail = -1 /\ lastFailLive = -1
    /\ FnIdle /\ RndIdle

notRetention == <<config, llmCooldownUntil, lastFail, lastFailLive, notRsv>>

\* index.ts 1094-1101: the cron callback up to its await; setDate(getDate() - n)
\* moves the date n calendar days back
CronCleanup(t) ==
    /\ task[t].pc = "idle"
    /\ task[t].runs < MaxCleanups
    /\ task' = [task EXCEPT ![t].pc = "remove",
                            ![t].cutoffDate = now - config.logRetentionDays * DayMs,
                            ![t].ranAt = now,
                            ![t].outcome = "none",
                            ![t].runs = @ + 1]
    /\ UNCHANGED <<now, travelLog, notRetention>>

\* index.ts 1100-1107: await ctx.database.remove(...) resumes; a rejected remove
\* has removed nothing and is caught
CleanupRemove(t) ==
    /\ task[t].pc = "remove"
    /\ \E ok \in BOOLEAN :
          /\ travelLog' = IF ok THEN removeOlderThan(travelLog, task[t].cutoffDate)
                          ELSE travelLog
          /\ task' = [task EXCEPT ![t].pc = "idle",
                                  ![t].outcome = IF ok THEN "removed" ELSE "failed"]
    /\ UNCHANGED <<now, notRetention>>

\* travel.ts 112-126: a travel sequence creates its row, timestamp: new Date()
CreateTravelRow(t) ==
    /\ task[t].nextId <= MaxOldRows + MaxNewRows
    /\ travelLog' = Append(travelLog, [id |-> task[t].nextId, timestamp |-> now])
    /\ task' = [task EXCEPT ![t].nextId = @ + 1]
    /\ UNCHANGED <<now, notRetention>>

HalfDayPasses ==
    /\ now < 2 * DayMs + MaxHalfDays * HalfDayMs
    /\ now' = now + HalfDayMs
    /\ UNCHANGED <<task, travelLog, notRetention>>

NextRetention ==
    \/ \E t \in Tasks : CronCleanup(t)
    \/ \E t \in Tasks : CleanupRemove(t)
    \/ \E t \in Tasks : CreateTravelRow(t)
    \/ HalfDayPasses

SpecRetention == InitRetention /\ [][NextRetention]_vars

\* the rows of log that are not earlier than logRetentionDays days before time
notExpiredAt(log, time) ==
    SelectSeq(log, LAMBDA r : r.timestamp >= time - config.logRetentionDays * DayMs)

\* a run of the job ends in this step, with its removal done or failed
removalDone(t) == task[t].pc = "remove" /\ task'[t].outcome = "removed"
removalFailed(t) == task[t].pc = "remove" /\ task'[t].outcome = "failed"

\* C22: a run of the daily retention job removes exactly the pig_travel_log
\* rows whose timestamp is earlier than (run time - logRetentionDays days) and
\* leaves every other row, pig_user_state and pig_guild_config as they were; a
\* failing removal leaves the table unchanged; and apart from the job a step
\* only appends a newly created row to pig_travel_log or leaves it alone.
C22_RetentionRemovesExactlyExpiredRows ==
    [][\A t \in Tasks :
          /\ pigUserState' = pigUserState /\ pigGuildConfig' = pigGuildConfig
          /\ removalDone(t) => travelLog' = notExpiredAt(travelLog, task[t].ranAt)
          /\ removalFailed(t) => travelLog' = travelLog
          /\ ~removalDone(t) =>
                \/ travelLog' = travelLog
                \/ /\ Len(travelLog') = Len(travelLog) + 1
                   /\ SubSeq(travelLog', 1, Len(travelLog)) = travelLog]_vars

\* a run with a retention of one day has removed an older row, kept the row at
\* the cutoff and kept a row created while its removal was awaited
C22_Witness ==
    \E t \in Tasks :
        /\ config.logRetentionDays = 1
        /\ task[t].pc = "idle" /\ task[t].outcome = "removed" /\ task[t].runs = 1
        /\ task[t].nextId = 4
        /\ Len(travelLog) = 2
        /\ travelLog[1].id = 2 /\ travelLog[1].timestamp = task[t].cutoffDate
        /\ travelLog[2].id = 3
        /\ pigUserState # {} /\ pigGuildConfig # {}

(***************************************************************************)
(* The background of generateFootprintCard (card.ts 44-250). A URL is its  *)
(* scheme, whether its host is images/source.unsplash.com, and whether its *)
(* text is plain or holds percent escapes. What a read or a fetch delivers *)
(* is a rejection or a buffer: its leading bytes (magic) and whether its       *)
(* length exceeds backgroundInlineMaxBytes.                                *)
(***************************************************************************)
NoBackground == [scheme |-> "none", unsplash |-> FALSE, text |-> "plain"]

BackgroundUrls ==
    { [scheme |-> s, unsplash |-> FALSE, text |-> "plain"] : s \in {"data", "file"} }
    \cup [scheme : {"https"}, unsplash : BOOLEAN, text : {"plain", "escaped"}]

\* png, jpeg, webp: the signatures sniffMime knows; ffOther: first byte 0xFF,
\* second not 0xD8; other: any other bytes; empty: no bytes
Magics == {"png", "jpeg", "webp", "ffOther", "other", "empty"}

Buffers ==
    { b \in [ok : {TRUE}, magic : Magics, over : BOOLEAN] : b.magic = "empty" => ~b.over }

\* the read or the fetch is rejected
Rejected == [ok |-> FALSE, magic |-> "empty", over |-> FALSE]

Loads == {Rejected} \cup Buffers

BackgroundInputs ==
    [bgImage : {NoBackground} \cup BackgroundUrls,
     backgroundFetchMode : {"auto", "always", "never"},
     load : Loads]

\* encodeURI escapes the "%" of every percent escape once more
encodeURI(url) ==
    IF url.text = "escaped" THEN [url EXCEPT !.text = "escaped twice"]
    ELSE IF url.text = "escaped twice" THEN [url EXCEPT !.text = "escaped thrice"]
    ELSE url

\* card.ts 48-59; the URLs of the model carry no surrounding white space
normalizeImageUrl(url) == IF url.scheme = "https" THEN encodeURI(url) ELSE url

\* card.ts 61-66
sniffMime(buffer) ==
    IF buffer.magic \in {"png", "jpeg", "webp"} THEN buffer.magic ELSE "jpeg"

\* buffer[0] === 0xFF
firstByteIsFF(buffer) == buffer.magic \in {"jpeg", "ffOther"}

\* card.ts 70-75
shouldServerFetch(mode, url) ==
    IF mode = "never" THEN FALSE
    ELSE IF mode = "always" THEN TRUE
    ELSE ~url.unsplash

Null == [kind |-> "null"]
asUrl(url) == [kind |-> "url", url |-> url]
asDataUrl(mime) == [kind |-> "data", mime |-> mime]
fallbackGradient == [kind |-> "gradient"]

\* card.ts 77-145: value is what the function returns, fetched whether it asked
\* ctx.http for the URL
fetchToDataUrl(url, forceServerFetch, mode, load) ==
    LET normalized == normalizeImageUrl(url) IN
    IF normalized.scheme = "data"
    THEN [value |-> asUrl(normalized), fetched |-> FALSE]
    ELSE IF normalized.scheme = "file"
    THEN [fetched |-> FALSE,
          value |-> IF ~load.ok THEN Null
                    ELSE IF load.over THEN asUrl(normalized)
                    ELSE asDataUrl(sniffMime(load))]
    ELSE IF ~forceServerFetch /\ ~shouldServerFetch(mode, normalized)
    THEN [value |-> asUrl(normalized), fetched |-> FALSE]
    ELSE [fetched |-> TRUE,
          value |-> IF ~load.ok THEN Null
                    ELSE IF sniffMime(load) = "jpeg" /\ ~firstByteIsFF(load) THEN Null
                    ELSE IF load.over THEN asUrl(normalized)
                    ELSE asDataUrl(sniffMime(load))]

\* card.ts 230-250: the background the card is rendered with
backgroundOf(in) ==
    IF in.bgImage # NoBackground
    THEN LET fetched == fetchToDataUrl(normalizeImageUrl(in.bgImage),
                                       in.backgroundFetchMode = "always",
                                       in.backgroundFetchMode, in.load)
         IN  [bgImage |-> IF fetched.value # Null THEN fetched.value ELSE fallbackGradient,
              fetched |-> fetched.fetched]
    ELSE [bgImage |-> fallbackGradient, fetched |-> FALSE]

InitBackground ==
    /\ fnIn \in BackgroundInputs
    /\ fnOut = NoResult
    /\ RsvIdle /\ MwIdle /\ CmdIdle /\ RndIdle

\* generateFootprintCard settles its background; no statement of it can raise
\* outside a try block
LoadBackground ==
    /\ ~fnOut.done
    /\ LET b == backgroundOf(fnIn) IN
       fnOut' = [done |-> TRUE, raised |-> FALSE, bgImage |-> b.bgImage,
                 fetched |-> b.fetched]
    /\ UNCHANGED <<fnIn, notFn>>

NextBackground == LoadBackground

SpecBackground == InitBackground /\ [][NextBackground]_vars

\* the background is read or fetched by the server
loaded(in) ==
    \/ in.bgImage.scheme = "file"
    \/ in.bgImage.scheme = "https" /\ shouldServerFetch(in.backgroundFetchMode, in.bgImage)

validImage(load) == load.ok /\ load.magic \in {"png", "jpeg", "webp"}

\* C23: loading the background never raises out of generateFootprintCard; a
\* missing background and a load failure (the read or the fetch fails, or what
\* it delivers is no image) yield the placeholder gradient; an image larger
\* than backgroundInlineMaxBytes yields the original URL, linked directly; and
\* with backgroundFetchMode "never" a remote background is used as a URL
\* without a server-side fetch.
C23_BackgroundNeverFailsTheCard ==
    fnOut.done =>
        /\ ~fnOut.raised
        /\ fnIn.bgImage = NoBackground => fnOut.bgImage = fallbackGradient
        /\ (loaded(fnIn) /\ ~validImage(fnIn.load)) => fnOut.bgImage = fallbackGradient
        /\ (loaded(fnIn) /\ validImage(fnIn.load) /\ fnIn.load.over)
              => fnOut.bgImage = asUrl(fnIn.bgImage)
        /\ (fnIn.bgImage.scheme = "https" /\ fnIn.backgroundFetchMode = "never")
              => fnOut.bgImage.kind = "url" /\ ~fnOut.fetched

(***************************************************************************)
(* getUserVisitedCountries and getGuildVisitedCountries (worldmap.ts       *)
(* 52-177). The argument is the pig_travel_log table of one platform and   *)
(* the query: the rows of user u1, or the rows of the guild.               *)
(***************************************************************************)
MaxVisits == 3

VisitPlaces ==
    Places \cup {[country |-> "Peru", countryZh |-> "zh-Peru"],
                 [country |-> "Biru", countryZh |-> "zh-Peru"]}

VisitRows == [userId : {"u1", "u2"}, place : VisitPlaces]

VisitTables == UNION {[1..n -> VisitRows] : n \in 0..MaxVisits}

\* worldmap.ts 62-65 and 128: ctx.database.get('pig_travel_log', query)
visitLogs(table, by) ==
    IF by = "user" THEN SelectSeq(table, LAMBDA r : r.userId = "u1") ELSE table

\* mutant of isoOf: a row without ISO mapping is filed under its country name
isoOf_CountryName(log) == countryKey(log)

\* worldmap.ts 83-88, 146-151: the ISO code of a row, "" if it has none
isoOf(log) ==
    IF getCountryISOCode(log.place.country) # "" THEN getCountryISOCode(log.place.country)
    ELSE IF getCountryISOCode(log.place.countryZh) # ""
    THEN getCountryISOCode(log.place.countryZh)
    ELSE ""

\* index of iso among the keys of countryMap, 0 when absent
RECURSIVE isoIndex(_, _, _)
isoIndex(countryMap, iso, i) ==
    IF i > Len(countryMap) THEN 0
    ELSE IF countryMap[i].isoCode = iso THEN i
    ELSE isoIndex(countryMap, iso, i + 1)

\* worldmap.ts 78-107, 140-170: one pass of the loop over the rows
addVisit(countryMap, log) ==
    LET iso == isoOf(log)
        i == isoIndex(countryMap, iso, 1)
    IN  IF iso = "" THEN countryMap
        ELSE IF i = 0 THEN Append(countryMap, [isoCode |-> iso, visitCount |-> 1])
        ELSE [countryMap EXCEPT ![i].visitCount = @ + 1]

\* worldmap.ts 76-107: countryMap after the first n rows, in insertion order
RECURSIVE countryMapOf(_, _)
countryMapOf(logs, n) ==
    IF n = 0 THEN << >> ELSE addVisit(countryMapOf(logs, n - 1), logs[n])

\* the comparator b.visitCount - a.visitCount under the stable sort: the number
\* of leading entries of sorted that stay ahead of c
RECURSIVE visitsAhead(_, _, _)
visitsAhead(sorted, c, i) ==
    IF i > Len(sorted) \/ sorted[i].visitCount - c.visitCount < 0 THEN i - 1
    ELSE visitsAhead(sorted, c, i + 1)

\* worldmap.ts 109-111, 172-174: Array.from(countryMap.values()).sort(...)
RECURSIVE sortByVisits(_, _)
sortByVisits(countryMap, n) ==
    IF n = 0 THEN << >>
    ELSE LET sorted == sortByVisits(countryMap, n - 1)
             k == visitsAhead(sorted, countryMap[n], 1)
         IN  SubSeq(sorted, 1, k) \o <<countryMap[n]>> \o SubSeq(sorted, k + 1, Len(sorted))

\* worldmap.ts 52-114, 116-177
getVisitedCountries(table, by) ==
    LET logs == visitLogs(table, by) IN
    IF Len(logs) = 0 THEN [visitedCountries |-> << >>, totalTrips |-> 0]
    ELSE LET countryMap == countryMapOf(logs, Len(logs))
         IN  [visitedCountries |-> sortByVisits(countryMap, Len(countryMap)),
              totalTrips |-> Len(logs)]

InitVisited ==
    /\ fnIn \in [table : VisitTables, by : {"user", "guild"}]
    /\ fnOut = NoResult
    /\ RsvIdle /\ MwIdle /\ CmdIdle /\ RndIdle

VisitedCountries ==
    /\ ~fnOut.done
    /\ LET r == getVisitedCountries(fnIn.table, fnIn.by) IN
       fnOut' = [done |-> TRUE, visitedCountries |-> r.visitedCountries,
                 totalTrips |-> r.totalTrips]
    /\ UNCHANGED <<fnIn, notFn>>

NextVisited == VisitedCountries

SpecVisited == InitVisited /\ [][NextVisited]_vars

\* the rows the query selects, and those of them with an ISO mapping
queriedRows ==
    { i \in 1..Len(fnIn.table) : fnIn.by = "user" => fnIn.table[i].userId = "u1" }
hasIso(log) ==
    getCountryISOCode(log.place.country) # "" \/ getCountryISOCode(log.place.countryZh) # ""
mappedRows == { i \in queriedRows : hasIso(fnIn.table[i]) }

RECURSIVE sumVisits(_, _)
sumVisits(vc, n) == IF n = 0 THEN 0 ELSE sumVisits(vc, n - 1) + vc[n].visitCount

\* C24: in the result of getUserVisitedCountries and getGuildVisitedCountries
\* every queried row counts in totalTrips, a row without ISO mapping appears in
\* no VisitedCountry entry, and the entries have visitCount >= 1, distinct ISO
\* codes, non-increasing visitCount, and visitCounts that add up to the number
\* of queried rows with an ISO mapping (hence at most totalTrips).
C24_UnmappedCountriesCountOnlyAsTrips ==
    fnOut.done =>
        LET vc == fnOut.visitedCountries IN
        /\ fnOut.totalTrips = Cardinality(queriedRows)
        /\ \A i \in 1..Len(vc) :
              /\ vc[i].visitCount >= 1
              /\ vc[i].isoCode \in {"JP", "PE"}
              /\ \A j \in 1..Len(vc) : vc[i].isoCode = vc[j].isoCode => i = j
              /\ i < Len(vc) => vc[i].visitCount >= vc[i + 1].visitCount
        /\ sumVisits(vc, Len(vc)) = Cardinality(mappedRows)
        /\ sumVisits(vc, Len(vc)) <= fnOut.totalTrips

\* the guild's three rows are one of an unmapped country first, then one mapped
\* through its English and one through its Chinese name to the same code
C24_Witness ==
    /\ fnOut.done /\ fnIn.by = "guild"
    /\ Len(fnIn.table) = 3
    /\ fnIn.table[1].place.country = "Atlantis"
    /\ fnIn.table[2].place.country = "Peru"
    /\ fnIn.table[3].place.country = "Biru"
    /\ fnOut.totalTrips = 3
    /\ fnOut.visitedCountries = <<[isoCode |-> "PE", visitCount |-> 2]>>

\* the travel sequences the silent record middleware has started for the user
silentStarts == { i \in DOMAIN started : started[i].mw = "silent" /\ started[i].key = userKey }

\* C25: with silentRecordEnabled and silentRecordAutoTravel on, the silent
\* record middleware starts at most one automatic travel sequence per user key
\* between two runs of the daily cache-clear job (no run of it falls into the
\* day of the model), however the user's message handlers interleave at their
\* awaits.
C25_OneSilentTravelPerDay ==
    (config.silentRecordEnabled /\ config.silentRecordAutoTravel)
        => Cardinality(silentStarts) <= 1

\* C26: the isAIGC flag that triggerTravelSequence returns and stores in its
\* travel-log row is true only if an AI-generated image URL was obtained and
\* used as the card background: it is false whenever the stock landscape photo
\* is the background (also when the generation reports success without a URL)
\* and whenever the output mode is text.
C26_IsAIGCOnlyWithGeneratedBackground ==
    \A t \in Tasks :
        (task[t].entry = "travel" /\ task[t].pc = "done") =>
            /\ task[t].isAIGC => task[t].backgroundUrl = AigcUrl
            /\ config.outputMode = "text" => ~task[t].isAIGC
            /\ \A i \in rowsOf(t) : travelLog[i].isAIGC = task[t].isAIGC

\* the set operation of task t ends in this step without having stored the new
\* background: a call failed, or the download is no image
setFails(t) ==
    /\ task[t].pc \in {"bg.send", "bg.mkdir", "bg.download", "bg.oldInfo", "bg.unlinkOld",
                       "bg.write", "bg.upsert"}
    /\ task'[t].pc \in {"returned", "threw"}
    /\ ~(task[t].pc = "bg.upsert" /\ task'[t].failed = "none")

\* C27: when an administrator's pig.bg set operation fails at any step (image
\* download, content-type check, file write, database upsert), the guild
\* background configured before is intact: the pig_guild_config row is
\* unchanged and a local file it references has not been deleted.
C27_FailedSetKeepsOldBackground ==
    [][\A t \in Tasks :
          setFails(t) =>
              /\ pigGuildConfig' = pigGuildConfig
              /\ \A r \in pigGuildConfig' :
                    r.backgroundImage.scheme = "file" => r.backgroundImage \in files']_vars

\* C28: parseLocationResponse ends for every response after at most two parse
\* attempts, the fenced-block or direct one and one on the loosely extracted
\* object: the fallback is not entered again on the string it produced, so the
\* recursion never goes on until the stack limit cuts it.
C28_AtMostTwoParseAttempts ==
    fnOut.done => (fnOut.attempts <= 2 /\ ~fnOut.exhausted)

(***************************************************************************)
(* The silent record middleware alone (index.ts 810-864), with messages of *)
(* the user from two guilds, shortly before or at sunrise.                 *)
(***************************************************************************)
TwoGuildConfigs ==
    [silentRecordEnabled : {TRUE}, silentRecordAutoTravel : {FALSE},
     experimentalAutoDetect : {FALSE}, experimentalAutoDetectScope : {"guild"},
     abnormalThreshold : {3}, nightOwlEnabled : {FALSE},
     nightOwlStartHour : {0}, nightOwlEndHour : {5},
     startTime : {SunriseToday - TickMs, SunriseToday}, guilds : {{"g1", "g2"}}]

InitTwoGuilds == MwInit(TwoGuildConfigs)

NextTwoGuilds ==
    \/ \E t \in Tasks : Receive(t)
    \/ \E t \in Tasks : SilentSunrise(t)
    \/ \E t \in Tasks : SilentUpsert(t)
    \/ \E t \in Tasks : StatsGet(t)
    \/ \E t \in Tasks : StatsUpsert(t)
    \/ MwTick

SpecTwoGuilds == InitTwoGuilds /\ [][NextTwoGuilds]_vars

\* C29: with silentRecordEnabled, once a message of the user from a guild that
\* arrived at or after today's sunrise has been handled (no call having
\* failed), the pig_user_state row of that (platform, userId, guildId) carries
\* today's wake-up record, lastWakeUp of today at or after sunrise and
\* lastSunrise of today - also when the user has sent a message in another
\* guild before.
C29_WakeUpRecordedPerGuild ==
    ( /\ config.silentRecordEnabled
      /\ config.startTime >= SunriseToday
      /\ \A t \in Tasks : task[t].failures = 0 )
    => \A t \in Tasks :
          (task[t].pc = "passed" /\ task[t].guildId # "") =>
              LET row == getFirst(pigUserState, task[t].guildId) IN
              /\ row.lastWakeUp >= SunriseToday
              /\ row.lastSunrise = SunriseToday

(***************************************************************************)
(* The message statistics middleware alone (index.ts 948-1022) around      *)
(* midnight, with a night-owl window that spans midnight (22:00 to 05:00)  *)
(* or the default one; the user keeps sending messages.                    *)
(***************************************************************************)
MaxMessages == 3     \* messages counted in a row before the user stops

NightOwlConfigs ==
    [silentRecordEnabled : {FALSE}, silentRecordAutoTravel : {FALSE},
     experimentalAutoDetect : {FALSE}, experimentalAutoDetectScope : {"guild"},
     abnormalThreshold : {3}, nightOwlEnabled : {TRUE},
     nightOwlStartHour : {0, 22}, nightOwlEndHour : {5},
     startTime : {Midnight - TickMs}, guilds : {{"g1"}}]

InitNightOwl == MwInit(NightOwlConfigs)

\* index.ts 950: the middleware runs anew for a later message of the user, after
\* an earlier message has gone through
NextMessage(t) ==
    /\ task[t].pc = "passed"
    /\ \A r \in pigUserState : r.totalMessageCount < MaxMessages
    /\ task' = [task EXCEPT ![t] = NewMessage]
    /\ UNCHANGED <<config, now, travelLog, mwVars, notMw>>

NextNightOwl ==
    \/ \E t \in Tasks : Receive(t)
    \/ \E t \in Tasks : StatsGet(t)
    \/ \E t \in Tasks : StatsUpsert(t)
    \/ \E t \in Tasks : NextMessage(t)
    \/ MwTick

SpecNightOwl == InitNightOwl /\ [][NextNightOwl]_vars

\* the calendar days from the first message to now
daysSoFar == dayOf(now) - dayOf(config.startTime) + 1

\* C30: nightOwlCount rises by at most 1 per calendar day under every
\* interleaving of the handlers' row reads and upserts: a row that starts at 0
\* never counts more night-owl days than calendar days have begun since the
\* first message, and counts none while no message fell into the window.
C30_NightOwlCountAtMostOncePerDay ==
    \A r \in pigUserState :
        /\ r.nightOwlCount <= daysSoFar
        /\ (config.nightOwlEnabled /\ r.nightOwlCount > 0) =>
              \E k \in 0..MwTicks :
                  /\ config.startTime + k * TickMs <= now
                  /\ isNightOwlTime(hourOf(config.startTime + k * TickMs))

====
